---------------------------- MODULE Spec2Model ----------------------------
(***************************************************************************)
(* Model of pymatgen.util.coord (src/src/pymatgen/util/coord.py).          *)
(*                                                                         *)
(* Every routine of the module is a pure function of its arguments, so the *)
(* state machine is a caller: from "idle" it picks a routine and arguments *)
(* out of bounded sets, the routine's action computes the outcome (a       *)
(* returned value or a raised exception), and Return goes back to "idle".  *)
(*                                                                         *)
(* Numbers are fixed point integers.                                       *)
(*   - Cartesian coordinates and tolerances are counted in units of 1e-9,  *)
(*     so the default atol of 1e-8 is 10 and a relative tolerance of 1e-5  *)
(*     of a value b is b \div 100000.                                      *)
(*   - Fractional coordinates and their tolerances are counted in units of *)
(*     1/ONE (hundredths), so 0.5 is 50 and 1.01 is 101.                   *)
(*   - The supercell enumeration, the Simplex methods and the linear       *)
(*     interpolation work on integers and return exact fractions (integer  *)
(*     numerators over a positive denominator).  A Simplex is the record   *)
(*     of its fields and is the first argument of its methods.             *)
(* Arrays are sequences of points, a point is a Dim-tuple. An array with   *)
(* no rows is the numpy array of shape (0, Dim).  Indices returned by the  *)
(* routines are 0-based as in the source; sequences are 1-based, so row i  *)
(* of the source is element i + 1 of the sequence.                         *)
(***************************************************************************)
EXTENDS Integers, Sequences, FiniteSets, TLC

VARIABLES pc, fn, args, ret, heap, simplex, dup_filter, vis, log

\* the objects that outlive a call: the arrays in memory by identity (heap),
\* a Simplex, a RemoveDuplicatesFilter, a MultiStructuresVis, and the
\* caller's record of the calls made on an object (log).  The routines of
\* pymatgen.util.coord called with values leave all of them alone.
objs == <<heap, simplex, dup_filter, vis, log>>

vars == <<pc, fn, args, ret, heap, simplex, dup_filter, vis, log>>

(***************************************************************************)
(* Bounds and program constants                                            *)
(***************************************************************************)
\* longest coordinate list the caller passes
MaxLen == 2

\* number of lattice axes: pbc is a tuple[bool, bool, bool]
Dim == 3

\* default atol=1e-8 of is_coord_subset, in units of 1e-9
DEFAULT_ATOL == 10

\* numpy's default rtol = 1e-5 of isclose / allclose, as its inverse
RTOL_INV == 100000

\* the fractional coordinate 1.0 in fixed point (hundredths)
ONE == 100

Axes == 1..Dim

(***************************************************************************)
(* numpy primitives                                                        *)
(***************************************************************************)
\* np.abs on a scalar
Abs(x) == IF x < 0 THEN -x ELSE x

\* (variant of np_round that truncates towards minus infinity)
np_round_floor(x) == x \div ONE

\* np.round on a fixed point scalar x (units of 1/ONE): the nearest integer,
\* exact halves go to the even neighbour.  The result is a whole number.
np_round(x) ==
  LET q == x \div ONE
      r == x % ONE
  IN  IF 2 * r < ONE THEN q
      ELSE IF 2 * r > ONE THEN q + 1
      ELSE IF q % 2 = 0 THEN q ELSE q + 1

\* (variant of np_where that counts the entries from 1)
np_where_1based(mask) ==
  SelectSeq([i \in 1..Len(mask) |-> i], LAMBDA j : mask[j])

\* np.where(mask)[0] for a 1-d boolean mask: the 0-based indices of the true
\* entries, ascending
np_where(mask) ==
  SelectSeq([i \in 1..Len(mask) |-> i - 1], LAMBDA j : mask[j + 1])

\* np.isclose(a, b, atol=atol) on scalars: |a - b| <= atol + rtol * |b|
isclose(a, b, atol) == Abs(a - b) - atol <= Abs(b) \div RTOL_INV

\* whether two arrays of shapes (n, Dim) and (m, Dim) broadcast together
broadcastable(a, b) == Len(a) = Len(b) \/ Len(a) = 1 \/ Len(b) = 1

\* np.allclose(a, b, atol=atol) for two arrays that broadcast together
allclose(a, b, atol) ==
  LET n == IF Len(a) = 1 THEN Len(b) ELSE IF Len(b) = 1 THEN Len(a) ELSE Len(a)
      row(x, i) == IF Len(x) = 1 THEN x[1] ELSE x[i]
  IN  \A i \in 1..n : \A k \in Axes : isclose(row(a, i)[k], row(b, i)[k], atol)

(***************************************************************************)
(* Outcomes of a call                                                      *)
(***************************************************************************)
\* an outcome is a record: kind is "ok" or the exception raised, msg its
\* message, and the returned value sits in the field of its type: val for a
\* sequence of integers (indices, a vector), flag for a boolean, vecs for a
\* matrix of vectors, d2 for a matrix of numbers, rat for an exact fraction,
\* rvec for a vector of fractions, rvecs for a list of such vectors and ref
\* for the identity (the place in heap) of a returned array
NoRet == [kind |-> "none", msg |-> "", val |-> <<>>, flag |-> FALSE,
          vecs |-> <<>>, d2 |-> <<>>, rat |-> [num |-> 0, den |-> 1],
          rvec |-> [num |-> <<>>, den |-> 1], rvecs |-> <<>>, ref |-> 0]

Ok(v) == [NoRet EXCEPT !.kind = "ok", !.val = v]

OkBool(b) == [NoRet EXCEPT !.kind = "ok", !.flag = b]

Raise(kind, msg) == [NoRet EXCEPT !.kind = kind, !.msg = msg]

\* a returned fraction, vector of fractions, list of vectors of fractions
OkRat(r) == [NoRet EXCEPT !.kind = "ok", !.rat = r]

OkRVec(v) == [NoRet EXCEPT !.kind = "ok", !.rvec = v]

OkRVecs(vs) == [NoRet EXCEPT !.kind = "ok", !.rvecs = vs]

OkRef(r) == [NoRet EXCEPT !.kind = "ok", !.ref = r]

\* the arguments of a call: l1, l2 coordinate lists, p, q single coordinates,
\* m a supercell matrix, coords and other the vertices of a Simplex (self and
\* the right hand side of ==), bary barycentric coordinates, tolerance a
\* fraction, xs, ys, x the arguments of the interpolation, structure the
\* number of a structure, sites the sites of a structure, max_dist the
\* distance of a SpeciesMaxDistFilter, edges and include_critical_points the
\* edges of a Critic2Analysis and the argument of its structure_graph
\* and sym the key of a key press
NoArgs == [l1 |-> <<>>, l2 |-> <<>>, p |-> <<>>, q |-> <<>>, atol |-> 0, pbc |-> <<>>,
           lattice |-> <<>>, return_d2 |-> FALSE, m |-> <<>>, coords |-> <<>>,
           other |-> <<>>, bary |-> [num |-> <<>>, den |-> 1],
           tolerance |-> [num |-> 0, den |-> 1], xs |-> <<>>, ys |-> <<>>, x |-> 0,
           structure |-> 0, sites |-> <<>>, max_dist |-> 0, edges |-> <<>>,
           include_critical_points |-> {}, sym |-> ""]

(***************************************************************************)
(* 4.1 tolerance based matching                                            *)
(***************************************************************************)
\* (variant of find_in_coord_list that accepts a difference of exactly atol)
find_in_coord_list_le(coord_list, coord, atol) ==
  IF Len(coord_list) = 0 THEN <<>>
  ELSE
    LET diff == [i \in 1..Len(coord_list) |->
                   [k \in Axes |-> coord_list[i][k] - coord[k]]]
    IN  np_where([i \in 1..Len(coord_list) |->
                    \A k \in Axes : Abs(diff[i][k]) <= atol])

\* find_in_coord_list, lines 28-43
find_in_coord_list(coord_list, coord, atol) ==
  IF Len(coord_list) = 0 THEN <<>>
  ELSE
    LET diff == [i \in 1..Len(coord_list) |->
                   [k \in Axes |-> coord_list[i][k] - coord[k]]]
    IN  np_where([i \in 1..Len(coord_list) |->
                    \A k \in Axes : Abs(diff[i][k]) < atol])

\* in_coord_list, lines 46-58
in_coord_list(coord_list, coord, atol) ==
  Len(find_in_coord_list(coord_list, coord, atol)) > 0

\* (variant of is_coord_subset that is content with one matched point)
is_coord_subset_exists(subset, superset, atol) ==
  \E i \in 1..Len(subset) : \E j \in 1..Len(superset) :
     \A k \in Axes : Abs(subset[i][k] - superset[j][k]) < atol

\* is_coord_subset, lines 61-77
is_coord_subset(subset, superset, atol) ==
  LET c1 == subset
      c2 == superset
      is_close == [i \in 1..Len(c1) |-> [j \in 1..Len(c2) |->
                     \A k \in Axes : Abs(c1[i][k] - c2[j][k]) < atol]]
      any_close == [i \in 1..Len(c1) |-> \E j \in 1..Len(c2) : is_close[i][j]]
  IN  \A i \in 1..Len(c1) : any_close[i]

\* np.where(mask)[1] for a 2-d boolean mask given by rows: the 0-based column
\* of every true entry, row after row
RECURSIVE np_where_cols(_, _)
np_where_cols(mask, i) ==
  IF i > Len(mask) THEN <<>>
  ELSE np_where(mask[i]) \o np_where_cols(mask, i + 1)

\* c2[inds]: the rows of c2 picked by a sequence of 0-based indices
RECURSIVE take(_, _, _)
take(c2, inds, t) ==
  IF t > Len(inds) THEN <<>>
  ELSE <<c2[inds[t] + 1]>> \o take(c2, inds, t + 1)

\* coord_list_mapping, lines 80-100
coord_list_mapping(subset, superset, atol) ==
  LET c1 == subset
      c2 == superset
      inds == np_where_cols(
                [i \in 1..Len(c1) |-> [j \in 1..Len(c2) |->
                   \A k \in Axes : isclose(c1[i][k], c2[j][k], atol)]], 1)
      result == take(c2, inds, 1)
  IN  IF ~broadcastable(c1, result)
        THEN Raise("ValueError", "operands could not be broadcast together")
      ELSE IF ~allclose(c1, result, atol) /\ ~is_coord_subset(subset, superset, DEFAULT_ATOL)
        THEN Raise("ValueError", "not a subset of superset")
      ELSE IF Len(result) # Len(c1)
        THEN Raise("ValueError", "Something wrong with the inputs, likely duplicates in superset")
      ELSE Ok(inds)

(***************************************************************************)
(* 4.2 periodic matching                                                   *)
(***************************************************************************)
\* (variant of pbc_diff that wraps every axis, whatever pbc says)
pbc_diff_nomask(frac_coords1, frac_coords2, pbc) ==
  LET frac_dist == [k \in Axes |-> frac_coords1[k] - frac_coords2[k]]
  IN  [k \in Axes |-> frac_dist[k] - ONE * np_round(frac_dist[k])]

\* pbc_diff on two single coordinates, lines 164-183
pbc_diff(frac_coords1, frac_coords2, pbc) ==
  LET frac_dist == [k \in Axes |-> frac_coords1[k] - frac_coords2[k]]
  IN  [k \in Axes |->
         frac_dist[k] - ONE * np_round(frac_dist[k]) * (IF pbc[k] THEN 1 ELSE 0)]

\* (variant of wrapped_frac_dist that subtracts nothing)
wrapped_frac_dist_raw(frac_coord_list, frac_coord, pbc) ==
  [i \in 1..Len(frac_coord_list) |->
     [k \in Axes |-> frac_coord_list[i][k] - frac_coord[k]]]

\* frac_dist of find_in_coord_list_pbc after line 229: the differences to
\* frac_coord, less their rounded value on the axes selected by pbc
wrapped_frac_dist(frac_coord_list, frac_coord, pbc) ==
  LET frac_coords == [i \in 1..Len(frac_coord_list) |-> frac_coord]
      frac_dist == [i \in 1..Len(frac_coord_list) |->
                      [k \in Axes |-> frac_coord_list[i][k] - frac_coords[i][k]]]
  IN  [i \in 1..Len(frac_coord_list) |->
         [k \in Axes |-> IF pbc[k]
                           THEN frac_dist[i][k] - ONE * np_round(frac_dist[i][k])
                           ELSE frac_dist[i][k]]]

\* (variant of find_in_coord_list_pbc that wraps every axis)
find_in_coord_list_pbc_allaxes(frac_coord_list, frac_coord, atol, pbc) ==
  IF Len(frac_coord_list) = 0 THEN <<>>
  ELSE
    LET frac_dist == wrapped_frac_dist(frac_coord_list, frac_coord, [k \in Axes |-> TRUE])
    IN  np_where([i \in 1..Len(frac_coord_list) |->
                    \A k \in Axes : Abs(frac_dist[i][k]) < atol])

\* find_in_coord_list_pbc, lines 208-230
find_in_coord_list_pbc(frac_coord_list, frac_coord, atol, pbc) ==
  IF Len(frac_coord_list) = 0 THEN <<>>
  ELSE
    LET frac_dist == wrapped_frac_dist(frac_coord_list, frac_coord, pbc)
    IN  np_where([i \in 1..Len(frac_coord_list) |->
                    \A k \in Axes : Abs(frac_dist[i][k]) < atol])

\* in_coord_list_pbc, lines 233-248
in_coord_list_pbc(fcoord_list, fcoord, atol, pbc) ==
  Len(find_in_coord_list_pbc(fcoord_list, fcoord, atol, pbc)) > 0

(***************************************************************************)
(* 4.3 minimum image displacement engine.  pbc_shortest_vectors (lines     *)
(* 186-205) hands over to the compiled companion coord_cython, which is    *)
(* not among the source files; the search below follows section 4.3 of the *)
(* specification: wrap the raw fractional difference to the primary range, *)
(* try the 3 x 3 x 3 neighbouring lattice translations, keep the shortest. *)
(* A lattice is three integer row vectors; a fractional vector f (in       *)
(* hundredths) has the Cartesian vector f . lattice (in hundredths too).   *)
(***************************************************************************)
\* fractional to Cartesian: the row vector f times the lattice matrix
cart_of(lattice, f) ==
  << f[1] * lattice[1][1] + f[2] * lattice[2][1] + f[3] * lattice[3][1],
     f[1] * lattice[1][2] + f[2] * lattice[2][2] + f[3] * lattice[3][2],
     f[1] * lattice[1][3] + f[2] * lattice[2][3] + f[3] * lattice[3][3] >>

\* squared length of a Cartesian vector
norm2(v) == v[1] * v[1] + v[2] * v[2] + v[3] * v[3]

\* the lattice translations of the search window
WindowImages == {<<a, b, c>> : a \in -1..1, b \in -1..1, c \in -1..1}

\* the fractional vector f translated by the whole lattice vector t
translate(f, t) == <<f[1] + ONE * t[1], f[2] + ONE * t[2], f[3] + ONE * t[3]>>

\* the raw difference from point a to point b, wrapped to the primary range
wrap_diff(a, b) ==
  << (b[1] - a[1]) - ONE * np_round(b[1] - a[1]),
     (b[2] - a[2]) - ONE * np_round(b[2] - a[2]),
     (b[3] - a[3]) - ONE * np_round(b[3] - a[3]) >>

\* the least number of a non-empty finite set
Min(S) == CHOOSE m \in S : \A x \in S : m <= x

\* (variant that keeps the wrapped difference without searching the window)
shortest_image_nosearch(lattice, a, b) == wrap_diff(a, b)

\* the shortest of the window's images of the wrapped difference from a to b
shortest_image(lattice, a, b) ==
  LET pre_im == wrap_diff(a, b)
      len2(t) == norm2(cart_of(lattice, translate(pre_im, t)))
      least == Min({len2(t) : t \in WindowImages})
      best == CHOOSE t \in WindowImages : len2(t) = least
  IN  translate(pre_im, best)

\* pbc_shortest_vectors with mask=None
pbc_shortest_vectors(lattice, frac_coords1, frac_coords2, return_d2) ==
  LET vectors == [i \in 1..Len(frac_coords1) |-> [j \in 1..Len(frac_coords2) |->
                    cart_of(lattice, shortest_image(lattice, frac_coords1[i], frac_coords2[j]))]]
      d2 == [i \in 1..Len(frac_coords1) |-> [j \in 1..Len(frac_coords2) |->
                    norm2(vectors[i][j])]]
  IN  IF return_d2
        THEN [NoRet EXCEPT !.kind = "ok", !.vecs = vectors, !.d2 = d2]
        ELSE [NoRet EXCEPT !.kind = "ok", !.vecs = vectors]

(***************************************************************************)
(* Exact fractions                                                         *)
(*                                                                         *)
(* The routines below divide (a matrix inverse, a slope).  Their results   *)
(* are kept exact: a vector of fractions is a record of integer numerators *)
(* num over one positive denominator den, a single fraction a record of an *)
(* integer num over a positive den.  Floating point rounding is not        *)
(* modelled.                                                               *)
(***************************************************************************)
\* np.array: the sequence with its entries computed once
np_array(s) == SelectSeq(s, LAMBDA e : TRUE)

\* the sign of an integer, 1 for zero
Sgn(x) == IF x < 0 THEN -1 ELSE 1

\* the vector nums / den with the sign moved to the numerators
RVec(nums, den) ==
  [num |-> np_array([k \in 1..Len(nums) |-> Sgn(den) * nums[k]]), den |-> Abs(den)]

\* the fraction n / d with the sign moved to the numerator
Rat(n, d) == [num |-> Sgn(d) * n, den |-> Abs(d)]

Max(S) == CHOOSE m \in S : \A x \in S : x <= m

(***************************************************************************)
(* 4.4 supercell lattice point enumeration                                 *)
(***************************************************************************)
\* np.dot(p, m) of a row vector and a matrix with three columns
dot_vm(p, m) ==
  << p[1] * m[1][1] + p[2] * m[2][1] + p[3] * m[3][1],
     p[1] * m[1][2] + p[2] * m[2][2] + p[3] * m[3][2],
     p[1] * m[1][3] + p[2] * m[2][3] + p[3] * m[3][3] >>

\* np.linalg.det of a 3x3 integer matrix
det3(m) ==
    m[1][1] * (m[2][2] * m[3][3] - m[2][3] * m[3][2])
  - m[1][2] * (m[2][1] * m[3][3] - m[2][3] * m[3][1])
  + m[1][3] * (m[2][1] * m[3][2] - m[2][2] * m[3][1])

\* the numerators of np.linalg.inv(m): inv(m) = adj3(m) / det3(m)
adj3(m) ==
  << << m[2][2] * m[3][3] - m[2][3] * m[3][2],
        m[1][3] * m[3][2] - m[1][2] * m[3][3],
        m[1][2] * m[2][3] - m[1][3] * m[2][2] >>,
     << m[2][3] * m[3][1] - m[2][1] * m[3][3],
        m[1][1] * m[3][3] - m[1][3] * m[3][1],
        m[1][3] * m[2][1] - m[1][1] * m[2][3] >>,
     << m[2][1] * m[3][2] - m[2][2] * m[3][1],
        m[1][2] * m[3][1] - m[1][1] * m[3][2],
        m[1][1] * m[2][2] - m[1][2] * m[2][1] >> >>

\* the padding 1e-10 of the unit cell test is 1 / (EPS_ROOT_INV * EPS_ROOT_INV)
EPS_ROOT_INV == 100000

\* the largest integer n with n / den <= 1e-10
eps_num(den) == (den \div EPS_ROOT_INV) \div EPS_ROOT_INV

\* (variant of in_unit_cell that keeps the closed cube [0, 1])
in_unit_cell_closed(f) ==
  \A k \in Axes : f.num[k] >= 0 /\ f.num[k] <= f.den

\* (variant of in_unit_cell that keeps the cube (0, 1])
in_unit_cell_upper(f) ==
  \A k \in Axes : f.num[k] > 0 /\ f.num[k] <= f.den

\* np.all(f < 1 - 1e-10) & np.all(f >= -1e-10) for one fractional point f:
\* with integers, num / den < 1 - 1e-10 iff den - num > den * 1e-10 iff
\* den - num > eps_num(den), and num / den >= -1e-10 iff num >= -eps_num(den)
in_unit_cell(f) ==
  \A k \in Axes : /\ f.den - f.num[k] > eps_num(f.den)
                  /\ f.num[k] >= -eps_num(f.den)

\* the possible outcomes of lattice_points_in_supercell(supercell_matrix).
\* The retained points are listed in the order of all_points (first axis
\* slowest).  For a singular matrix np.linalg.inv raises LinAlgError when
\* the elimination meets an exact zero pivot; when rounding hides the zero
\* the inverse is garbage, the origin is still retained, the count is not
\* round(|det|) = 0 and the routine raises its ValueError.
lattice_points_in_supercell(supercell_matrix) ==
  LET diagonals == << <<0, 0, 0>>, <<0, 0, 1>>, <<0, 1, 0>>, <<0, 1, 1>>,
                      <<1, 0, 0>>, <<1, 0, 1>>, <<1, 1, 0>>, <<1, 1, 1>> >>
      d_points == << dot_vm(diagonals[1], supercell_matrix),
                     dot_vm(diagonals[2], supercell_matrix),
                     dot_vm(diagonals[3], supercell_matrix),
                     dot_vm(diagonals[4], supercell_matrix),
                     dot_vm(diagonals[5], supercell_matrix),
                     dot_vm(diagonals[6], supercell_matrix),
                     dot_vm(diagonals[7], supercell_matrix),
                     dot_vm(diagonals[8], supercell_matrix) >>
      column(k) == {d_points[i][k] : i \in 1..8}
      mins == << Min(column(1)), Min(column(2)), Min(column(3)) >>
      maxes == << Max(column(1)) + 1, Max(column(2)) + 1, Max(column(3)) + 1 >>
      na == maxes[1] - mins[1]
      nb == maxes[2] - mins[2]
      nc == maxes[3] - mins[3]
      all_points == [i \in 1..(na * nb * nc) |->
                       << mins[1] + (i - 1) \div (nb * nc),
                          mins[2] + (((i - 1) \div nc) % nb),
                          mins[3] + ((i - 1) % nc) >>]
      det == det3(supercell_matrix)
      inv_num == adj3(supercell_matrix)
      frac_points == [i \in 1..(na * nb * nc) |->
                        RVec(dot_vm(all_points[i], inv_num), det)]
      t_vecs == SelectSeq(frac_points, in_unit_cell)
      mismatch == Raise("ValueError", "The number of transformed vectors mismatch.")
  IN  IF det = 0
        THEN {Raise("LinAlgError", "Singular matrix"), mismatch}
        ELSE IF Len(t_vecs) # Abs(det) THEN {mismatch} ELSE {OkRVecs(t_vecs)}

(***************************************************************************)
(* 4.5 Simplex                                                             *)
(*                                                                         *)
(* A Simplex is the record of the fields __init__ sets; a method takes it  *)
(* as its first argument (self).  The fields _aug and _aug_inv exist only  *)
(* when the vertex array has one more row than columns (has_aug); reading  *)
(* them otherwise is Python's AttributeError.  The inverse is kept exact   *)
(* as its numerators aug_inv_num over the determinant aug_det.             *)
(***************************************************************************)
\* the sum of a sequence of integers
RECURSIVE SumSeq(_)
SumSeq(s) == IF Len(s) = 0 THEN 0 ELSE s[1] + SumSeq(Tail(s))

\* np.concatenate([coords, np.ones((space_dim, 1))], axis=-1)
augment(coords) == np_array([i \in 1..Len(coords) |-> Append(coords[i], 1)])

\* the square matrix m without row i and column j
minor(m, i, j) ==
  np_array([r \in 1..(Len(m) - 1) |->
     np_array([c \in 1..(Len(m) - 1) |->
        m[IF r < i THEN r ELSE r + 1][IF c < j THEN c ELSE c + 1]])])

\* np.linalg.det of a square integer matrix (expansion along the first row)
RECURSIVE det(_)
det(m) ==
  IF Len(m) = 1 THEN m[1][1]
  ELSE SumSeq([j \in 1..Len(m) |->
                 (IF j % 2 = 1 THEN 1 ELSE -1) * m[1][j] * det(minor(m, 1, j))])

\* (variant of adj without the transposition: the matrix of cofactors)
cofactors(m) ==
  np_array([i \in 1..Len(m) |->
     np_array([j \in 1..Len(m) |->
        (IF (i + j) % 2 = 0 THEN 1 ELSE -1) * det(minor(m, i, j))])])

\* the numerators of np.linalg.inv(m): inv(m) = adj(m) / det(m)
adj(m) ==
  np_array([i \in 1..Len(m) |->
     np_array([j \in 1..Len(m) |->
        (IF (i + j) % 2 = 0 THEN 1 ELSE -1) * det(minor(m, j, i))])])

\* math.factorial
RECURSIVE factorial(_)
factorial(n) == IF n = 0 THEN 1 ELSE n * factorial(n - 1)

\* Simplex.__init__(coords)
Simplex(coords) ==
  LET space_dim == Len(coords)
      simplex_dim == Len(coords[1])
      has_aug == space_dim = simplex_dim + 1
      aug == augment(coords)
  IN  [ coords |-> coords,
        space_dim |-> space_dim,
        simplex_dim |-> simplex_dim,
        origin |-> coords[Len(coords)],
        has_aug |-> has_aug,
        aug |-> IF has_aug THEN aug ELSE <<>>,
        aug_inv_num |-> IF has_aug THEN adj(aug) ELSE <<>>,
        aug_det |-> IF has_aug THEN det(aug) ELSE 0 ]

\* the ValueError the barycentric methods turn the AttributeError into
NotFullDimensional == Raise("ValueError", "Simplex is not full-dimensional")

\* (variant of volume that keeps the sign of the determinant)
volume_signed(self) ==
  IF ~self.has_aug
    THEN Raise("AttributeError", "'Simplex' object has no attribute '_aug'")
    ELSE OkRat(Rat(det(self.aug), factorial(self.simplex_dim)))

\* Simplex.volume: reading self._aug of a simplex without it is an
\* AttributeError, which the property does not catch
volume(self) ==
  IF ~self.has_aug
    THEN Raise("AttributeError", "'Simplex' object has no attribute '_aug'")
    ELSE OkRat(Rat(Abs(det(self.aug)), factorial(self.simplex_dim)))

\* np.dot(np.concatenate([point, [1]]), self._aug_inv) for a point given as
\* a vector of fractions: [num / den, 1] = [num, den] / den
bary_of(self, point) ==
  LET n == self.simplex_dim + 1
      row == Append(point.num, point.den)
  IN  RVec([j \in 1..n |-> SumSeq([i \in 1..n |-> row[i] * self.aug_inv_num[i][j]])],
           point.den * self.aug_det)

\* (variant of bary_coords without the except clause)
bary_coords_uncaught(self, point) ==
  IF ~self.has_aug
    THEN Raise("AttributeError", "'Simplex' object has no attribute '_aug_inv'")
    ELSE OkRVec(bary_of(self, point))

\* Simplex.bary_coords: the AttributeError of a missing _aug_inv is caught
\* and raised again as ValueError
bary_coords(self, point) ==
  IF ~self.has_aug THEN NotFullDimensional ELSE OkRVec(bary_of(self, point))

\* np.dot(bary_coords, self._aug[:, :-1])
point_of(self, bary) ==
  RVec([k \in 1..self.simplex_dim |->
          SumSeq([i \in 1..self.space_dim |-> bary.num[i] * self.aug[i][k]])],
       bary.den)

\* Simplex.point_from_bary_coords: the AttributeError of a missing _aug is
\* caught and raised again as ValueError
point_from_bary_coords(self, bary) ==
  IF ~self.has_aug THEN NotFullDimensional ELSE OkRVec(point_of(self, bary))

\* the largest integer n with n / den <= tolerance, for a fraction tolerance
tol_num(tolerance, den) == (tolerance.num * den) \div tolerance.den

\* (variant of all_ge_neg that asks for strictly positive coordinates)
all_positive(b, tolerance) == \A k \in 1..Len(b.num) : b.num[k] > 0

\* (b >= -tolerance).all(): num / den >= -tolerance iff num >= -tol_num
all_ge_neg(b, tolerance) ==
  \A k \in 1..Len(b.num) : b.num[k] >= -tol_num(tolerance, b.den)

\* Simplex.in_simplex: an exception of bary_coords propagates
in_simplex(self, point, tolerance) ==
  LET b == bary_coords(self, point)
  IN  IF b.kind # "ok" THEN b ELSE OkBool(all_ge_neg(b.rvec, tolerance))

\* np.allclose(b, p, atol=tolerance, rtol=0) for two vectors of fractions
allclose_rtol0(b, p, tolerance) ==
  \A k \in 1..Len(b.num) :
    Abs(b.num[k] * p.den - p.num[k] * b.den) <= tol_num(tolerance, b.den * p.den)

\* (variant of collect_barys that keeps duplicate candidates)
RECURSIVE collect_barys_all(_, _, _, _)
collect_barys_all(possible, i, barys, tolerance) ==
  IF i > Len(possible) THEN barys
  ELSE IF all_ge_neg(possible[i], tolerance)
         THEN collect_barys_all(possible, i + 1, Append(barys, possible[i]), tolerance)
         ELSE collect_barys_all(possible, i + 1, barys, tolerance)

\* the loop of line_intersection over possible[i..]: barys collects the
\* candidates that are in the simplex and not close to one collected before
RECURSIVE collect_barys(_, _, _, _)
collect_barys(possible, i, barys, tolerance) ==
  IF i > Len(possible) THEN barys
  ELSE LET p == possible[i]
           found == \E j \in 1..Len(barys) : allclose_rtol0(barys[j], p, tolerance)
       IN  IF all_ge_neg(p, tolerance) /\ ~found
             THEN collect_barys(possible, i + 1, Append(barys, p), tolerance)
             ELSE collect_barys(possible, i + 1, barys, tolerance)

\* possible = b1 - (b1[valid] / line[valid])[:, None] * line, one row for each
\* barycentric coordinate k with |line[k]| > 1e-10: the point of the line
\* whose k-th barycentric coordinate vanishes.  b1 and b2 share the
\* denominator den, line = l / den, so the row is
\* (b1.num * l[k] - b1.num[k] * l) / (den * l[k])
possible_barys(b1, b2) ==
  LET n == Len(b1.num)
      l == np_array([j \in 1..n |-> b1.num[j] - b2.num[j]])
      valid == SelectSeq([j \in 1..n |-> j], LAMBDA j : Abs(l[j]) > eps_num(b1.den))
  IN  np_array([i \in 1..Len(valid) |->
         LET k == valid[i]
         IN  RVec([j \in 1..n |-> b1.num[j] * l[k] - b1.num[k] * l[j]], b1.den * l[k])])

\* Simplex.line_intersection: an exception of bary_coords propagates; the
\* points are point_from_bary_coords of the collected candidates
line_intersection(self, point1, point2, tolerance) ==
  LET b1 == bary_coords(self, point1)
      b2 == bary_coords(self, point2)
      barys == collect_barys(possible_barys(b1.rvec, b2.rvec), 1, <<>>, tolerance)
  IN  IF b1.kind # "ok" THEN b1
      ELSE IF b2.kind # "ok" THEN b2
      ELSE IF Len(barys) >= 3
             THEN Raise("ValueError", "More than 2 intersections found")
             ELSE OkRVecs(np_array([i \in 1..Len(barys) |->
                                      point_from_bary_coords(self, barys[i]).rvec]))

\* itertools.permutations of a sequence
permutations(s) ==
  {[i \in 1..Len(s) |-> s[f[i]]] : f \in Permutations(1..Len(s))}

\* np.allclose default atol = 1e-8, in units of 1e-9
ALLCLOSE_ATOL == 10

\* (variant of Simplex_eq that compares the vertex lists exactly)
Simplex_eq_exact(self, other) ==
  IF ~broadcastable(self.coords, other.coords)
    THEN Raise("ValueError", "operands could not be broadcast together")
    ELSE OkBool(\E p \in permutations(self.coords) : p = other.coords)

\* Simplex.__eq__ for another Simplex: any permutation p of the own vertices
\* with np.allclose(p, other.coords) (default rtol and atol).  any() stops
\* at the first exception, and allclose raises when the two vertex arrays do
\* not broadcast.  Coordinates are in units of 1e-9 here.
Simplex_eq(self, other) ==
  IF ~broadcastable(self.coords, other.coords)
    THEN Raise("ValueError", "operands could not be broadcast together")
    ELSE OkBool(\E p \in permutations(self.coords) :
                  allclose(p, other.coords, ALLCLOSE_ATOL))

\* Simplex.__hash__: the number of vertices
Simplex_hash(self) == Len(self.coords)

(***************************************************************************)
(* 4.6 linear interpolation                                                *)
(***************************************************************************)
\* zip(x_values, y_values) of two lists of one length: the rows <<x, y>>
zip(x_values, y_values) ==
  np_array([i \in 1..Len(x_values) |-> <<x_values[i], y_values[i]>>])

\* the sorted list s with the row d put in: after every row whose key d[0]
\* is not larger, so rows with equal keys keep their order
insort(s, d) ==
  LET before == SelectSeq(s, LAMBDA e : e[1] <= d[1])
      after == SelectSeq(s, LAMBDA e : e[1] > d[1])
  IN  before \o <<d>> \o after

\* sorted(rows, key=lambda d: d[0])
RECURSIVE sorted(_)
sorted(rows) ==
  IF Len(rows) = 0 THEN <<>>
  ELSE insort(sorted(SubSeq(rows, 1, Len(rows) - 1)), rows[Len(rows)])

\* the ValueError of a call outside the range of x_values
OutOfRange == Raise("ValueError", "x is out of range of provided x_values")

\* (variant of get_linear_interpolated_value that returns the y of the
\* nearest end outside the range)
get_linear_interpolated_value_clamped(x_values, y_values, x) ==
  IF Len(x_values) # Len(y_values)
    THEN Raise("ValueError", "zip() arguments differ in length")
  ELSE IF Len(x_values) = 0
    THEN Raise("IndexError", "too many indices for array")
  ELSE LET arr == sorted(zip(x_values, y_values))
       IN  IF x < arr[1][1] THEN OkRat(Rat(arr[1][2], 1))
           ELSE OkRat(Rat(arr[Len(arr)][2], 1))

\* (variant of get_linear_interpolated_value that looks for the first
\* abscissa that is not smaller than x)
get_linear_interpolated_value_ge(x_values, y_values, x) ==
  IF Len(x_values) # Len(y_values)
    THEN Raise("ValueError", "zip() arguments differ in length")
  ELSE IF Len(x_values) = 0
    THEN Raise("IndexError", "too many indices for array")
  ELSE LET arr == sorted(zip(x_values, y_values))
           indices == np_where([i \in 1..Len(arr) |-> arr[i][1] >= x])
       IN  IF Len(indices) = 0 \/ indices[1] = 0 THEN OutOfRange
           ELSE LET idx == indices[1]
                    x1 == arr[idx][1]
                    x2 == arr[idx + 1][1]
                    y1 == arr[idx][2]
                    y2 == arr[idx + 1][2]
                IN  OkRat(Rat(y1 * (x2 - x1) + (y2 - y1) * (x - x1), x2 - x1))

\* get_linear_interpolated_value: zip(strict=True) raises ValueError for
\* lists of different lengths, and arr[:, 0] raises IndexError for the one
\* dimensional array made from no rows.  idx is 0-based: arr[idx] is the
\* element idx + 1 of the sequence.  The value y1 + (y2 - y1) / (x2 - x1) *
\* (x - x1) is the fraction (y1 * (x2 - x1) + (y2 - y1) * (x - x1)) / (x2 - x1)
get_linear_interpolated_value(x_values, y_values, x) ==
  IF Len(x_values) # Len(y_values)
    THEN Raise("ValueError", "zip() arguments differ in length")
  ELSE IF Len(x_values) = 0
    THEN Raise("IndexError", "too many indices for array")
  ELSE LET arr == sorted(zip(x_values, y_values))
           indices == np_where([i \in 1..Len(arr) |-> arr[i][1] > x])
       IN  IF Len(indices) = 0 \/ indices[1] = 0 THEN OutOfRange
           ELSE LET idx == indices[1]
                    x1 == arr[idx][1]
                    x2 == arr[idx + 1][1]
                    y1 == arr[idx][2]
                    y2 == arr[idx + 1][2]
                IN  OkRat(Rat(y1 * (x2 - x1) + (y2 - y1) * (x - x1), x2 - x1))

(***************************************************************************)
(* Argument sets                                                           *)
(***************************************************************************)
\* all sequences over S of length 0..n
RECURSIVE SeqsUpTo(_, _)
SeqsUpTo(S, n) ==
  IF n = 0 THEN {<<>>}
  ELSE LET shorter == SeqsUpTo(S, n - 1)
       IN  shorter \cup {Append(s, x) : s \in shorter, x \in S}

\* Cartesian points (units of 1e-9): two points 5e-9 apart, one far away on
\* another axis, and two large coordinates 2e-9 apart
CartPoints ==
  { <<0, 0, 0>>, <<5, 0, 0>>, <<0, 20, 0>>, <<200000, 0, 3>>, <<200002, 0, 3>> }

CartLists == SeqsUpTo(CartPoints, MaxLen)

\* tolerances (units of 1e-9): none, below, at and above the default
CartAtols == {0, 1, 10, 20}

\* fractional coordinates (hundredths): the docstring examples of pbc_diff,
\* a lattice translate of the origin that is off by 0.01 on one axis, and
\* points whose differences are exact half integers
FracPoints ==
  { <<0, 0, 0>>, <<100, 0, -99>>, <<50, 100, 250>>, <<150, 1, 99>>,
    <<10, 10, 10>>, <<30, 50, 90>>, <<90, 10, 101>> }

FracLists == SeqsUpTo(FracPoints, MaxLen)

\* tolerances on fractional coordinates (hundredths)
FracAtols == {2, 12, 80}

\* every choice of periodic axes
PbcFlags == {<<a, b, c>> : a \in BOOLEAN, b \in BOOLEAN, c \in BOOLEAN}

\* lattices (rows are the lattice vectors): cubic, orthorhombic, a hexagonal
\* like cell and a strongly sheared cell
Lattices ==
  { <<<<10, 0, 0>>, <<0, 10, 0>>, <<0, 0, 10>>>>,
    <<<<10, 0, 0>>, <<0, 20, 0>>, <<0, 0, 30>>>>,
    <<<<10, 0, 0>>, <<-5, 9, 0>>, <<0, 0, 10>>>>,
    <<<<10, 0, 0>>, <<50, 10, 0>>, <<0, 0, 10>>>> }

\* the fractional coordinate arrays handed to pbc_shortest_vectors: one or
\* two points each
PairPoints == { <<0, 0, 0>>, <<20, 30, 0>>, <<50, 0, 0>>, <<90, 10, 101>> }

PairLists == {<<a>> : a \in PairPoints} \cup {<<a, b>> : a \in PairPoints, b \in PairPoints}

\* rows of the supercell matrices: unit vectors, a doubled axis, in-plane
\* and out-of-plane shears with positive and negative entries
SupercellRows ==
  { <<1, 0, 0>>, <<0, 1, 0>>, <<0, 0, 1>>, <<2, 0, 0>>,
    <<1, 1, 0>>, <<-1, 1, 0>>, <<0, 1, 2>>, <<1, -1, 2>> }

\* the integer matrices handed to lattice_points_in_supercell
SupercellMatrices == {<<a, b, c>> : a \in SupercellRows, b \in SupercellRows, c \in SupercellRows}

\* vertex arrays with one more row than columns and independent edges: two
\* triangles and two tetrahedra, the first of each the unit right simplex
\* (np.linalg.inv fails on dependent edges, so __init__ builds no Simplex
\* from them)
FullCoords ==
  { << <<0, 0>>, <<1, 0>>, <<0, 1>> >>,
    << <<0, 0>>, <<3, 1>>, <<1, 2>> >>,
    << <<0, 0, 0>>, <<1, 0, 0>>, <<0, 1, 0>>, <<0, 0, 1>> >>,
    << <<0, 0, 0>>, <<2, 0, 0>>, <<0, 2, 0>>, <<1, 1, 2>> >> }

\* vertex arrays of other shapes: a segment and a square in the plane, a
\* segment and a triangle in space
FlatCoords ==
  { << <<0, 0>>, <<2, 0>> >>,
    << <<0, 0>>, <<2, 0>>, <<0, 2>>, <<2, 2>> >>,
    << <<0, 0, 0>>, <<1, 0, 0>> >>,
    << <<0, 0, 0>>, <<1, 0, 0>>, <<0, 1, 0>> >> }

SimplexCoords == FullCoords \cup FlatCoords

\* the points handed to the methods of a Simplex with d columns
PointsOfDim(d) ==
  IF d = 2 THEN {<<a, b>> : a \in -1..3, b \in -1..3}
  ELSE {<<a, b, c>> : a \in 0..2, b \in 0..2, c \in 0..2}
         \cup {<<-1, -1, -1>>, <<1, 1, -1>>, <<-1, 0, 1>>, <<2, 1, -1>>}

\* barycentric coordinates handed to point_from_bary_coords of a Simplex
\* with n vertices: wholes and halves, not all of them with sum 1
BarysOfLen(n) ==
  {RVec(b, d) : b \in {t \in SeqsUpTo({-1, 0, 1, 2}, n) : Len(t) = n}, d \in {1, 2}}

\* tolerances: none, the default 1e-8 and a coarse one
SimplexTols ==
  { [num |-> 0, den |-> 1], [num |-> 1, den |-> 100000000], [num |-> 2, den |-> 5] }

\* the Simplex objects the methods are called on
Simplices == {Simplex(c) : c \in SimplexCoords}

\* the Simplex objects that are compared: their vertex arrays are in units
\* of 1e-9 and have fewer rows than a full simplex
EqSimplices == {Simplex(c) : c \in CartLists \ {<<>>}}

\* the lists and the abscissa handed to get_linear_interpolated_value
InterpXs == SeqsUpTo({0, 1, 2, 4}, MaxLen + 1)

InterpYs == SeqsUpTo({0, 4}, MaxLen + 1)

InterpX == -1..5

(***************************************************************************)
(* The caller                                                              *)
(***************************************************************************)
\* no Simplex, filter or visualizer has been constructed
NoSimplex == [_coords |-> 0, origin |-> 0, space_dim |-> 0, simplex_dim |-> 0,
              _aug |-> 0, _aug_inv |-> 0, aug_det |-> 0]

NoFilter == [symprec |-> "None", structure_list |-> <<>>]

\* MultiStructuresVis.__init__ (lines 959-965): structures and
\* current_structure are None (has_structures is false, the structure 0) and
\* the warning actor is new; structure is what set_structure displays
NoVis == [has_structures |-> FALSE, structures |-> <<>>, istruct |-> 0,
          current_structure |-> 0, structure |-> 0,
          warning_txt |-> "", warning_visible |-> FALSE]

Init ==
  /\ pc = "idle"
  /\ fn = "none"
  /\ args = NoArgs
  /\ ret = NoRet
  /\ heap = <<>>
  /\ simplex = NoSimplex
  /\ dup_filter = NoFilter
  /\ vis = NoVis
  /\ log = <<>>

Call_find_in_coord_list ==
  /\ pc = "idle"
  /\ \E l \in CartLists, p \in CartPoints, t \in CartAtols :
       /\ args' = [NoArgs EXCEPT !.l1 = l, !.p = p, !.atol = t]
       /\ ret' = Ok(find_in_coord_list(l, p, t))
  /\ fn' = "find_in_coord_list"
  /\ pc' = "returned"
  /\ UNCHANGED objs

Call_in_coord_list ==
  /\ pc = "idle"
  /\ \E l \in CartLists, p \in CartPoints, t \in CartAtols :
       /\ args' = [NoArgs EXCEPT !.l1 = l, !.p = p, !.atol = t]
       /\ ret' = OkBool(in_coord_list(l, p, t))
  /\ fn' = "in_coord_list"
  /\ pc' = "returned"
  /\ UNCHANGED objs

Call_is_coord_subset ==
  /\ pc = "idle"
  /\ \E s \in CartLists, u \in CartLists, t \in CartAtols :
       /\ args' = [NoArgs EXCEPT !.l1 = s, !.l2 = u, !.atol = t]
       /\ ret' = OkBool(is_coord_subset(s, u, t))
  /\ fn' = "is_coord_subset"
  /\ pc' = "returned"
  /\ UNCHANGED objs

Call_coord_list_mapping ==
  /\ pc = "idle"
  /\ \E s \in CartLists, u \in CartLists, t \in CartAtols \ {0} :
       /\ args' = [NoArgs EXCEPT !.l1 = s, !.l2 = u, !.atol = t]
       /\ ret' = coord_list_mapping(s, u, t)
  /\ fn' = "coord_list_mapping"
  /\ pc' = "returned"
  /\ UNCHANGED objs

Call_pbc_diff ==
  /\ pc = "idle"
  /\ \E p \in FracPoints, q \in FracPoints, b \in PbcFlags :
       /\ args' = [NoArgs EXCEPT !.p = p, !.q = q, !.pbc = b]
       /\ ret' = Ok(pbc_diff(p, q, b))
  /\ fn' = "pbc_diff"
  /\ pc' = "returned"
  /\ UNCHANGED objs

Call_find_in_coord_list_pbc ==
  /\ pc = "idle"
  /\ \E l \in FracLists, p \in FracPoints, t \in FracAtols, b \in PbcFlags :
       /\ args' = [NoArgs EXCEPT !.l1 = l, !.p = p, !.atol = t, !.pbc = b]
       /\ ret' = Ok(find_in_coord_list_pbc(l, p, t, b))
  /\ fn' = "find_in_coord_list_pbc"
  /\ pc' = "returned"
  /\ UNCHANGED objs

Call_in_coord_list_pbc ==
  /\ pc = "idle"
  /\ \E l \in FracLists, p \in FracPoints, t \in FracAtols, b \in PbcFlags :
       /\ args' = [NoArgs EXCEPT !.l1 = l, !.p = p, !.atol = t, !.pbc = b]
       /\ ret' = OkBool(in_coord_list_pbc(l, p, t, b))
  /\ fn' = "in_coord_list_pbc"
  /\ pc' = "returned"
  /\ UNCHANGED objs

Call_pbc_shortest_vectors ==
  /\ pc = "idle"
  /\ \E lat \in Lattices, f1 \in PairLists, f2 \in PairLists, d \in BOOLEAN :
       /\ args' = [NoArgs EXCEPT !.lattice = lat, !.l1 = f1, !.l2 = f2, !.return_d2 = d]
       /\ ret' = pbc_shortest_vectors(lat, f1, f2, d)
  /\ fn' = "pbc_shortest_vectors"
  /\ pc' = "returned"
  /\ UNCHANGED objs

Call_lattice_points_in_supercell ==
  /\ pc = "idle"
  /\ \E m \in SupercellMatrices :
       /\ args' = [NoArgs EXCEPT !.m = m]
       /\ ret' \in lattice_points_in_supercell(m)
  /\ fn' = "lattice_points_in_supercell"
  /\ pc' = "returned"
  /\ UNCHANGED objs

Call_Simplex_volume ==
  /\ pc = "idle"
  /\ \E self \in Simplices :
       /\ args' = [NoArgs EXCEPT !.coords = self.coords]
       /\ ret' = volume(self)
  /\ fn' = "Simplex.volume"
  /\ pc' = "returned"
  /\ UNCHANGED objs

Call_Simplex_bary_coords ==
  /\ pc = "idle"
  /\ \E self \in Simplices :
       \E p \in PointsOfDim(self.simplex_dim) :
         /\ args' = [NoArgs EXCEPT !.coords = self.coords, !.p = p]
         /\ ret' = bary_coords(self, RVec(p, 1))
  /\ fn' = "Simplex.bary_coords"
  /\ pc' = "returned"
  /\ UNCHANGED objs

Call_Simplex_point_from_bary_coords ==
  /\ pc = "idle"
  /\ \E self \in Simplices :
       \E b \in BarysOfLen(self.space_dim) :
         /\ args' = [NoArgs EXCEPT !.coords = self.coords, !.bary = b]
         /\ ret' = point_from_bary_coords(self, b)
  /\ fn' = "Simplex.point_from_bary_coords"
  /\ pc' = "returned"
  /\ UNCHANGED objs

Call_Simplex_in_simplex ==
  /\ pc = "idle"
  /\ \E self \in Simplices :
       \E p \in PointsOfDim(self.simplex_dim), t \in SimplexTols :
         /\ args' = [NoArgs EXCEPT !.coords = self.coords, !.p = p, !.tolerance = t]
         /\ ret' = in_simplex(self, RVec(p, 1), t)
  /\ fn' = "Simplex.in_simplex"
  /\ pc' = "returned"
  /\ UNCHANGED objs

Call_Simplex_line_intersection ==
  /\ pc = "idle"
  /\ \E self \in Simplices :
       \E p1 \in PointsOfDim(self.simplex_dim),
          p2 \in PointsOfDim(self.simplex_dim), t \in SimplexTols :
         /\ args' = [NoArgs EXCEPT !.coords = self.coords, !.p = p1, !.q = p2, !.tolerance = t]
         /\ ret' = line_intersection(self, RVec(p1, 1), RVec(p2, 1), t)
  /\ fn' = "Simplex.line_intersection"
  /\ pc' = "returned"
  /\ UNCHANGED objs

Call_Simplex_eq ==
  /\ pc = "idle"
  /\ \E self \in EqSimplices, other \in EqSimplices :
       /\ args' = [NoArgs EXCEPT !.coords = self.coords, !.other = other.coords]
       /\ ret' = Simplex_eq(self, other)
  /\ fn' = "Simplex.__eq__"
  /\ pc' = "returned"
  /\ UNCHANGED objs

\* hash(simplex); the integer is returned as the fraction h / 1
Call_Simplex_hash ==
  /\ pc = "idle"
  /\ \E self \in Simplices \cup EqSimplices :
       /\ args' = [NoArgs EXCEPT !.coords = self.coords]
       /\ ret' = OkRat(Rat(Simplex_hash(self), 1))
  /\ fn' = "Simplex.__hash__"
  /\ pc' = "returned"
  /\ UNCHANGED objs

Call_get_linear_interpolated_value ==
  /\ pc = "idle"
  /\ \E xs \in InterpXs, ys \in InterpYs, x \in InterpX :
       /\ args' = [NoArgs EXCEPT !.xs = xs, !.ys = ys, !.x = x]
       /\ ret' = get_linear_interpolated_value(xs, ys, x)
  /\ fn' = "get_linear_interpolated_value"
  /\ pc' = "returned"
  /\ UNCHANGED objs

Return ==
  /\ pc = "returned"
  /\ pc' = "idle"
  /\ fn' = "none"
  /\ args' = NoArgs
  /\ ret' = NoRet
  /\ UNCHANGED objs

Next ==
  \/ Call_find_in_coord_list
  \/ Call_in_coord_list
  \/ Call_is_coord_subset
  \/ Call_coord_list_mapping
  \/ Call_pbc_diff
  \/ Call_find_in_coord_list_pbc
  \/ Call_in_coord_list_pbc
  \/ Call_pbc_shortest_vectors
  \/ Call_lattice_points_in_supercell
  \/ Call_Simplex_volume
  \/ Call_Simplex_bary_coords
  \/ Call_Simplex_point_from_bary_coords
  \/ Call_Simplex_in_simplex
  \/ Call_Simplex_line_intersection
  \/ Call_Simplex_eq
  \/ Call_Simplex_hash
  \/ Call_get_linear_interpolated_value
  \/ Return

Spec == Init /\ [][Next]_vars

(***************************************************************************)
(* The Simplex as an object in memory.  heap is the sequence of the arrays *)
(* allocated so far and an array's identity is its place in heap; the      *)
(* fields _coords, _aug and _aug_inv of the object hold identities, origin *)
(* is a view of the last row of _coords.  The caller holds the list it     *)
(* built the Simplex from and the arrays the calls return.                 *)
(***************************************************************************)
\* a new array with the contents a: np.array(a), a.copy(), np.concatenate
alloc(h, a) == Append(h, a)

\* (variant of Simplex_init that keeps the caller's array itself as _coords)
Simplex_init_asarray(h, coords) ==
  LET self == Simplex(h[coords])
      h2 == IF self.has_aug THEN alloc(alloc(h, self.aug), self.aug_inv_num) ELSE h
  IN  [ heap |-> h2,
        self |-> [_coords |-> coords, origin |-> coords,
                  space_dim |-> self.space_dim, simplex_dim |-> self.simplex_dim,
                  _aug |-> IF self.has_aug THEN Len(h) + 1 ELSE 0,
                  _aug_inv |-> IF self.has_aug THEN Len(h) + 2 ELSE 0,
                  aug_det |-> self.aug_det] ]

\* Simplex.__init__ for the list at coords in the memory h: _coords is a new
\* array np.array(coords), origin a view of it, and a vertex array with one
\* more row than columns gets the new arrays _aug and _aug_inv.  The result
\* is the memory after the call and the fields of the object.
Simplex_init(h, coords) ==
  LET self == Simplex(h[coords])
      h1 == alloc(h, self.coords)
      h2 == IF self.has_aug THEN alloc(alloc(h1, self.aug), self.aug_inv_num) ELSE h1
  IN  [ heap |-> h2,
        self |-> [_coords |-> Len(h) + 1, origin |-> Len(h) + 1,
                  space_dim |-> self.space_dim, simplex_dim |-> self.simplex_dim,
                  _aug |-> IF self.has_aug THEN Len(h) + 2 ELSE 0,
                  _aug_inv |-> IF self.has_aug THEN Len(h) + 3 ELSE 0,
                  aug_det |-> self.aug_det] ]

\* the values the methods read through the fields of the object s
self_value(h, s) ==
  [ coords |-> h[s._coords],
    space_dim |-> s.space_dim,
    simplex_dim |-> s.simplex_dim,
    origin |-> h[s.origin][Len(h[s.origin])],
    has_aug |-> s._aug # 0,
    aug |-> IF s._aug # 0 THEN h[s._aug] ELSE <<>>,
    aug_inv_num |-> IF s._aug_inv # 0 THEN h[s._aug_inv] ELSE <<>>,
    aug_det |-> s.aug_det ]

\* (variant of Simplex_coords that returns the array _coords itself)
Simplex_coords_view(h, s) == [heap |-> h, ref |-> s._coords]

\* Simplex.coords: self._coords.copy(), a new array
Simplex_coords(h, s) == [heap |-> alloc(h, h[s._coords]), ref |-> Len(h) + 1]

\* array[row][0] = value, written by the caller into an array it holds
write(h, ref, row, value) == [h EXCEPT ![ref][row][1] = value]

\* the points, barycentric coordinates and right hand sides of == handed to
\* the methods of the object
ObjPoints(d) == {p \in PointsOfDim(d) : \A k \in 1..d : p[k] \in {0, 1}}

ObjBarys(n) == {b \in BarysOfLen(n) : b.den = 1 /\ \A k \in 1..n : b.num[k] \in {0, 1}}

ObjOthers == Simplices \cup {Simplex(<< <<0, 0, 0>> >>)}

\* the caller built the list heap[1] and a Simplex from it
SimplexInit ==
  /\ pc = "idle"
  /\ fn = "none"
  /\ args = NoArgs
  /\ ret = NoRet
  /\ \E coords \in SimplexCoords :
       LET made == Simplex_init(<<coords>>, 1)
       IN  heap = made.heap /\ simplex = made.self
  /\ dup_filter = NoFilter
  /\ vis = NoVis
  /\ log = <<>>

\* a method that only reads: its outcome is returned and nothing is written
Reads(name, outcome) ==
  /\ pc = "idle"
  /\ fn' = name
  /\ ret' = outcome
  /\ pc' = "returned"
  /\ UNCHANGED objs

Method_volume ==
  /\ args' = NoArgs
  /\ Reads("Simplex.volume", volume(self_value(heap, simplex)))

Method_bary_coords ==
  \E p \in ObjPoints(simplex.simplex_dim) :
    /\ args' = [NoArgs EXCEPT !.p = p]
    /\ Reads("Simplex.bary_coords", bary_coords(self_value(heap, simplex), RVec(p, 1)))

Method_point_from_bary_coords ==
  \E b \in ObjBarys(simplex.space_dim) :
    /\ args' = [NoArgs EXCEPT !.bary = b]
    /\ Reads("Simplex.point_from_bary_coords",
             point_from_bary_coords(self_value(heap, simplex), b))

Method_in_simplex ==
  \E p \in ObjPoints(simplex.simplex_dim), t \in SimplexTols :
    /\ args' = [NoArgs EXCEPT !.p = p, !.tolerance = t]
    /\ Reads("Simplex.in_simplex", in_simplex(self_value(heap, simplex), RVec(p, 1), t))

Method_line_intersection ==
  \E p \in ObjPoints(simplex.simplex_dim), q \in ObjPoints(simplex.simplex_dim),
     t \in SimplexTols :
    /\ args' = [NoArgs EXCEPT !.p = p, !.q = q, !.tolerance = t]
    /\ Reads("Simplex.line_intersection",
             line_intersection(self_value(heap, simplex), RVec(p, 1), RVec(q, 1), t))

\* == between vertex arrays of Dim columns
Method_eq ==
  \E other \in {o \in ObjOthers : o.simplex_dim = Dim} :
    /\ simplex.simplex_dim = Dim
    /\ args' = [NoArgs EXCEPT !.other = other.coords]
    /\ Reads("Simplex.__eq__", Simplex_eq(self_value(heap, simplex), other))

Method_hash ==
  /\ args' = NoArgs
  /\ Reads("Simplex.__hash__", OkRat(Rat(Simplex_hash(self_value(heap, simplex)), 1)))

\* simplex.coords: the caller gets the identity of the returned array
Method_coords ==
  /\ pc = "idle"
  /\ LET got == Simplex_coords(heap, simplex)
     IN  heap' = got.heap /\ ret' = OkRef(got.ref)
  /\ fn' = "Simplex.coords"
  /\ args' = NoArgs
  /\ pc' = "returned"
  /\ UNCHANGED <<simplex, dup_filter, vis, log>>

\* the caller writes into the array that simplex.coords returned
Caller_writes_returned ==
  /\ pc = "returned"
  /\ fn = "Simplex.coords"
  /\ \E row \in {1, Len(heap[ret.ref])} : heap' = write(heap, ret.ref, row, 7)
  /\ UNCHANGED <<pc, fn, args, ret, simplex, dup_filter, vis, log>>

\* the caller writes into the list it built the Simplex from
Caller_writes_argument ==
  /\ pc = "idle"
  /\ \E row \in {1, Len(heap[1])} : heap' = write(heap, 1, row, 7)
  /\ UNCHANGED <<pc, fn, args, ret, simplex, dup_filter, vis, log>>

\* back in the caller; the array that coords returned is dropped with the
\* caller's reference unless it is the object's own
Method_return ==
  /\ pc = "returned"
  /\ pc' = "idle"
  /\ fn' = "none"
  /\ args' = NoArgs
  /\ ret' = NoRet
  /\ heap' = IF fn = "Simplex.coords" /\ ret.ref # simplex._coords
               THEN SubSeq(heap, 1, Len(heap) - 1)
               ELSE heap
  /\ UNCHANGED <<simplex, dup_filter, vis, log>>

SimplexNext ==
  \/ Method_volume
  \/ Method_bary_coords
  \/ Method_point_from_bary_coords
  \/ Method_in_simplex
  \/ Method_line_intersection
  \/ Method_eq
  \/ Method_hash
  \/ Method_coords
  \/ Caller_writes_returned
  \/ Caller_writes_argument
  \/ Method_return

SimplexSpec == SimplexInit /\ [][SimplexNext]_vars

(***************************************************************************)
(* RemoveDuplicatesFilter (src/src/pymatgen/alchemy/filters.py).  A        *)
(* structure is known to the filter by three things it asks of other       *)
(* classes: the hash of its composition, its space group number and which  *)
(* structures the structure matcher fits it to.  Structures are numbered;  *)
(* the three are given as tables over the numbers.                         *)
(***************************************************************************)
\* most calls of test the caller makes on one filter
MaxCalls == 4

Structures == 1..5

\* structure_matcher._comparator.get_hash(structure.composition)
get_hash(structure) == IF structure = 4 THEN "B" ELSE "A"

Hashes == {get_hash(st) : st \in Structures}

\* get_spg_num(struct): SpacegroupAnalyzer(struct, symprec).get_space_group_number()
get_spg_num(struct) == IF struct \in {3, 5} THEN 225 ELSE 221

\* structure_matcher.fit(struct, structure): every structure fits itself, 1
\* and 2 fit each other, 1 and 3 fit each other but differ in space group, 2
\* fits 4 of another composition hash, 3 fits 5 but 5 does not fit 3
fit(struct, structure) ==
  \/ struct = structure
  \/ <<struct, structure>> \in {<<1, 2>>, <<2, 1>>, <<1, 3>>, <<3, 1>>, <<2, 4>>, <<4, 2>>, <<3, 5>>}

\* the loop of lines 210-214: some stored structure of the same hash has the
\* same space group (when symprec is given) and fits
is_duplicate(self, structure) ==
  LET stored == self.structure_list[get_hash(structure)]
  IN  \E i \in 1..Len(stored) :
        /\ self.symprec = "None" \/ get_spg_num(stored[i]) = get_spg_num(structure)
        /\ fit(stored[i], structure)

\* (variant of RemoveDuplicatesFilter_test that stores every structure it
\* is given)
RemoveDuplicatesFilter_test_stores_all(self, structure) ==
  LET hash_comp == get_hash(structure)
      appended == [self EXCEPT !.structure_list[hash_comp] = Append(@, structure)]
  IN  IF Len(self.structure_list[hash_comp]) = 0 THEN [flag |-> TRUE, self |-> appended]
      ELSE IF is_duplicate(self, structure) THEN [flag |-> FALSE, self |-> appended]
      ELSE [flag |-> TRUE, self |-> appended]

\* RemoveDuplicatesFilter.test: the returned bool and the filter after the
\* call
RemoveDuplicatesFilter_test(self, structure) ==
  LET hash_comp == get_hash(structure)
      appended == [self EXCEPT !.structure_list[hash_comp] = Append(@, structure)]
  IN  IF Len(self.structure_list[hash_comp]) = 0 THEN [flag |-> TRUE, self |-> appended]
      ELSE IF is_duplicate(self, structure) THEN [flag |-> FALSE, self |-> self]
      ELSE [flag |-> TRUE, self |-> appended]

\* RemoveDuplicatesFilter(symprec=...): structure_list is an empty
\* defaultdict(list), here the empty list for every hash
FilterInit ==
  /\ pc = "idle"
  /\ fn = "none"
  /\ args = NoArgs
  /\ ret = NoRet
  /\ heap = <<>>
  /\ simplex = NoSimplex
  /\ \E symprec \in {"None", "1e-5"} :
       dup_filter = [symprec |-> symprec, structure_list |-> [h \in Hashes |-> <<>>]]
  /\ vis = NoVis
  /\ log = <<>>

\* filter.test(structure); the caller notes the call and what it returned
Call_RemoveDuplicatesFilter_test ==
  /\ pc = "idle"
  /\ Len(log) < MaxCalls
  /\ \E structure \in Structures :
       LET out == RemoveDuplicatesFilter_test(dup_filter, structure)
       IN  /\ args' = [NoArgs EXCEPT !.structure = structure]
           /\ ret' = OkBool(out.flag)
           /\ dup_filter' = out.self
           /\ log' = Append(log, [structure |-> structure, flag |-> out.flag])
  /\ fn' = "RemoveDuplicatesFilter.test"
  /\ pc' = "returned"
  /\ UNCHANGED <<heap, simplex, vis>>

FilterNext ==
  \/ Call_RemoveDuplicatesFilter_test
  \/ Return

FilterSpec == FilterInit /\ [][FilterNext]_vars

(***************************************************************************)
(* SpeciesMaxDistFilter (src/src/pymatgen/alchemy/filters.py).  A          *)
(* structure is the list of its sites; a site has a specie and a position  *)
(* x (in Angstrom) on the one axis of a periodic cell.                     *)
(***************************************************************************)
\* length of the cell, in Angstrom
CellLength == 10

\* lattice.get_all_distances for two sites: the distance to the nearest
\* periodic image
get_all_distances(site1, site2) ==
  LET d == Abs(site1.x - site2.x)
  IN  IF 2 * d > CellLength THEN CellLength - d ELSE d

\* [idx for idx, site in enumerate(structure) if site.specie == sp]
indices_of(structure, sp) ==
  SelectSeq([i \in 1..Len(structure) |-> i], LAMBDA i : structure[i].specie = sp)

\* SpeciesMaxDistFilter.test: all(any(row) for row in dists < self.max_dist),
\* one row for every site of sp1 and one column for every site of sp2
SpeciesMaxDistFilter_test(self, structure) ==
  LET sp1_indices == indices_of(structure, self.sp1)
      sp2_indices == indices_of(structure, self.sp2)
      dists == [i \in 1..Len(sp1_indices) |-> [j \in 1..Len(sp2_indices) |->
                  get_all_distances(structure[sp1_indices[i]], structure[sp2_indices[j]])]]
  IN  \A i \in 1..Len(sp1_indices) : \E j \in 1..Len(sp2_indices) :
        dists[i][j] < self.max_dist

\* the filter SpeciesMaxDistFilter("Li", "Fe", max_dist)
SpeciesMaxDistFilter(max_dist) == [sp1 |-> "Li", sp2 |-> "Fe", max_dist |-> max_dist]

\* the sites and the structures handed to the filter
Sites == [specie : {"Li", "Fe", "O"}, x : {0, 1, 3, 8}]

SiteLists == SeqsUpTo(Sites, MaxLen + 1)

MaxDists == {2, 4}

Call_SpeciesMaxDistFilter_test ==
  /\ pc = "idle"
  /\ \E structure \in SiteLists, max_dist \in MaxDists :
       /\ args' = [NoArgs EXCEPT !.sites = structure, !.max_dist = max_dist]
       /\ ret' = OkBool(SpeciesMaxDistFilter_test(SpeciesMaxDistFilter(max_dist), structure))
  /\ fn' = "SpeciesMaxDistFilter.test"
  /\ pc' = "returned"
  /\ UNCHANGED objs

MaxDistNext ==
  \/ Call_SpeciesMaxDistFilter_test
  \/ Return

MaxDistSpec == Init /\ [][MaxDistNext]_vars

(***************************************************************************)
(* Critic2Analysis.structure_graph                                         *)
(* (src/src/pymatgen/command_line/critic2_caller.py).  The analysis holds  *)
(* the critical points, the nodes (each naming its unique critical point)  *)
(* and the edges; node and point indices are 0-based as in the source.     *)
(* The dict edges is the list of its items in insertion order, an item     *)
(* being the key idx with from_idx, to_idx and, for the two lattice        *)
(* vectors, the cell lvec of the far end relative to the near one.         *)
(***************************************************************************)
\* self.critical_points: the type of each unique critical point
critical_points == <<"nucleus", "nnattr", "bond", "ring">>

\* self.nodes: the unique_idx of each node; nodes 0 and 1 are the two atoms
\* of the structure, node 2 a non-nuclear attractor, 3 and 4 bond points
\* and 5 a ring point
nodes == <<0, 0, 1, 2, 2, 3>>

\* self.critical_points[self.nodes[idx]["unique_idx"]].type
type_of(idx) == critical_points[nodes[idx + 1] + 1]

\* len(self.structure): the atoms
num_sites == Cardinality({idx \in 0..(Len(nodes) - 1) : type_of(idx) = "nucleus"})

\* point_idx_to_struct_idx.get(idx, idx) after lines 506-524: every node
\* whose type is included was appended to the structure, in node order
point_idx_to_struct_idx(include_critical_points, idx) ==
  IF type_of(idx) \in include_critical_points
    THEN num_sites - 1
           + Cardinality({i \in 0..idx : type_of(i) \in include_critical_points})
    ELSE idx

\* whether two edges are equal as dicts
same_edge(e1, e2) ==
  e1.from_idx = e2.from_idx /\ e1.to_idx = e2.to_idx /\ e1.lvec = e2.lvec

\* idx_to_delete after the loop of lines 535-553, from item k on
RECURSIVE idx_to_delete(_, _, _)
idx_to_delete(edges, k, found) ==
  IF k > Len(edges) THEN found
  ELSE LET idx == edges[k].idx
           more == IF type_of(idx) = "bond" /\ idx \notin found
                     THEN {edges[k2].idx : k2 \in {j \in 1..Len(edges) :
                             edges[j].idx # idx /\ same_edge(edges[k], edges[j])}}
                     ELSE {}
       IN  idx_to_delete(edges, k + 1, found \cup more)

\* (variant of skip_bond that reads the type of the far end from to_idx)
skip_bond_both_ends(include_critical_points, from_idx, to_idx) ==
  IF include_critical_points # {} /\ "nnattr" \notin include_critical_points
    THEN type_of(from_idx) # "nucleus" \/ type_of(to_idx) # "nucleus"
    ELSE FALSE

\* skip_bond of lines 574-578: from_type and to_type are both read from
\* the node from_idx
skip_bond(include_critical_points, from_idx, to_idx) ==
  IF include_critical_points # {} /\ "nnattr" \notin include_critical_points
    THEN LET from_type == type_of(from_idx)
             to_type == type_of(from_idx)
         IN  from_type # "nucleus" \/ to_type # "nucleus"
    ELSE FALSE

\* structure_graph: the edges handed to struct_graph.add_edge, in order, each
\* as <<idx, from_idx, to_idx, struct_from_idx, struct_to_idx>>
structure_graph(edges, include_critical_points) ==
  LET deleted == idx_to_delete(edges, 1, {})
      kept == SelectSeq(edges, LAMBDA e : e.idx \notin deleted)
      added == SelectSeq(kept, LAMBDA e :
                 /\ type_of(e.idx) = "bond"
                 /\ ~skip_bond(include_critical_points, e.from_idx, e.to_idx))
  IN  [k \in 1..Len(added) |->
         << added[k].idx, added[k].from_idx, added[k].to_idx,
            point_idx_to_struct_idx(include_critical_points, added[k].from_idx),
            point_idx_to_struct_idx(include_critical_points, added[k].to_idx) >>]

\* the edges the analysis may hold: none or one for each of the bond points
\* 3 and 4 and for the ring point 5, between the attractors 0, 1 and 2
EdgesOf(idx) ==
  { <<>> } \cup
  { << [idx |-> idx, from_idx |-> f, to_idx |-> t, lvec |-> l] >> :
      f \in 0..2, t \in 0..2, l \in IF idx = 5 THEN {0} ELSE {0, 1} }

EdgeLists == {a \o b \o c : a \in EdgesOf(3), b \in EdgesOf(4), c \in EdgesOf(5)}

\* include_critical_points: None, the default, and two with "nnattr"
IncludeSets ==
  { {}, {"bond", "ring", "cage"}, {"nucleus", "bond"}, {"nnattr", "bond"} }

Call_structure_graph ==
  /\ pc = "idle"
  /\ \E edges \in EdgeLists, include_critical_points \in IncludeSets :
       /\ args' = [NoArgs EXCEPT !.edges = edges,
                                 !.include_critical_points = include_critical_points]
       /\ ret' = [NoRet EXCEPT !.kind = "ok",
                               !.vecs = structure_graph(edges, include_critical_points)]
  /\ fn' = "Critic2Analysis.structure_graph"
  /\ pc' = "returned"
  /\ UNCHANGED objs

GraphNext ==
  \/ Call_structure_graph
  \/ Return

GraphSpec == Init /\ [][GraphNext]_vars

(***************************************************************************)
(* MultiStructuresVis and its interactor style                             *)
(* (src/src/pymatgen/vis/structure_vtk.py).  Structures are numbered;      *)
(* istruct is 0-based as in the source, so structures[istruct] is element  *)
(* istruct + 1 of the sequence.                                            *)
(***************************************************************************)
\* display_warning(warning): the text and a visible warning actor
display_warning(self, warning) ==
  [self EXCEPT !.warning_txt = warning, !.warning_visible = TRUE]

\* parent.current_structure = parent.structures[parent.istruct], then
\* set_structure(parent.current_structure, ...) and erase_warning(); an
\* istruct past the end of the list raises IndexError after it was assigned
show_current(self) ==
  IF self.istruct + 1 \in 1..Len(self.structures)
    THEN [self |-> [self EXCEPT !.current_structure = self.structures[self.istruct + 1],
                                !.structure = self.structures[self.istruct + 1],
                                !.warning_visible = FALSE],
          out |-> [NoRet EXCEPT !.kind = "ok"]]
    ELSE [self |-> self, out |-> Raise("IndexError", "list index out of range")]

\* MultiStructuresVis.set_structures: the visualizer after the call and the
\* outcome; structures[0] of an empty list raises after structures and
\* istruct were assigned
set_structures(self, structures) ==
  LET assigned == [self EXCEPT !.has_structures = TRUE, !.structures = structures,
                               !.istruct = 0]
  IN  IF Len(structures) = 0
        THEN [self |-> assigned, out |-> Raise("IndexError", "list index out of range")]
        ELSE [self |-> [assigned EXCEPT !.current_structure = structures[1],
                                        !.structure = structures[1]],
              out |-> [NoRet EXCEPT !.kind = "ok"]]

\* (variant of keyPressEvent that moves without looking at the ends)
keyPressEvent_unchecked(self, sym) ==
  IF sym = "n"
    THEN [self |-> [self EXCEPT !.istruct = @ + 1], out |-> [NoRet EXCEPT !.kind = "ok"]]
  ELSE IF sym = "p"
    THEN [self |-> [self EXCEPT !.istruct = @ - 1], out |-> [NoRet EXCEPT !.kind = "ok"]]
  ELSE [self |-> self, out |-> [NoRet EXCEPT !.kind = "ok"]]

\* MultiStructuresInteractorStyle.keyPressEvent for the keys "n" and "p" and a
\* key that only the base class handles; len(parent.structures) of None
\* raises TypeError
keyPressEvent(self, sym) ==
  IF sym = "n"
    THEN IF ~self.has_structures
           THEN [self |-> self,
                 out |-> Raise("TypeError", "object of type 'NoneType' has no len()")]
         ELSE IF self.istruct = Len(self.structures) - 1
           THEN [self |-> display_warning(self, "WARNING : LAST STRUCTURE"),
                 out |-> [NoRet EXCEPT !.kind = "ok"]]
         ELSE show_current([self EXCEPT !.istruct = @ + 1])
  ELSE IF sym = "p"
    THEN IF self.istruct = 0
           THEN [self |-> display_warning(self, "WARNING : FIRST STRUCTURE"),
                 out |-> [NoRet EXCEPT !.kind = "ok"]]
         ELSE show_current([self EXCEPT !.istruct = @ - 1])
  ELSE [self |-> self, out |-> [NoRet EXCEPT !.kind = "ok"]]

\* the lists handed to set_structures and the keys pressed
VisStructureLists == SeqsUpTo({1, 2}, MaxLen + 1)

KeySyms == {"n", "p", "h"}

\* a new MultiStructuresVis
VisInit ==
  /\ pc = "idle"
  /\ fn = "none"
  /\ args = NoArgs
  /\ ret = NoRet
  /\ heap = <<>>
  /\ simplex = NoSimplex
  /\ dup_filter = NoFilter
  /\ vis = NoVis
  /\ log = <<>>

Call_set_structures ==
  /\ pc = "idle"
  /\ \E structures \in VisStructureLists :
       LET done == set_structures(vis, structures)
       IN  /\ args' = [NoArgs EXCEPT !.l1 = structures]
           /\ vis' = done.self
           /\ ret' = done.out
  /\ fn' = "MultiStructuresVis.set_structures"
  /\ pc' = "returned"
  /\ UNCHANGED <<heap, simplex, dup_filter, log>>

\* a key press; the count of presses past the end of an empty list is
\* capped
Call_keyPressEvent ==
  /\ pc = "idle"
  /\ vis.istruct <= MaxLen + 1
  /\ \E sym \in KeySyms :
       LET done == keyPressEvent(vis, sym)
       IN  /\ args' = [NoArgs EXCEPT !.sym = sym]
           /\ vis' = done.self
           /\ ret' = done.out
  /\ fn' = "MultiStructuresInteractorStyle.keyPressEvent"
  /\ pc' = "returned"
  /\ UNCHANGED <<heap, simplex, dup_filter, log>>

VisNext ==
  \/ Call_set_structures
  \/ Call_keyPressEvent
  \/ Return

VisSpec == VisInit /\ [][VisNext]_vars

(***************************************************************************)
(* Properties of 4.1                                                       *)
(***************************************************************************)
IsMapping == pc = "returned" /\ fn = "coord_list_mapping"

\* a subset point and a superset point match within atol, in the sense the
\* mapping itself uses on line 94 (np.isclose on every component)
Matches(p, q, atol) == \A k \in Axes : isclose(p[k], q[k], atol)

MatchCols(i) ==
  {j \in 1..Len(args.l2) : Matches(args.l1[i], args.l2[j], args.atol)}

\* C1: whenever some subset point has no superset point matching it within
\* atol, coord_list_mapping raises ValueError instead of returning indices.
C1_MissingPointRaises ==
  (IsMapping /\ \E i \in 1..Len(args.l1) : MatchCols(i) = {})
     => ret.kind = "ValueError"

\* C2: whenever coord_list_mapping returns, the result has one index per
\* subset point, in subset order, and superset[result[i]] matches subset[i]
\* within atol on every component.
C2_ReturnedIndicesMatch ==
  (IsMapping /\ ret.kind = "ok")
     => /\ Len(ret.val) = Len(args.l1)
        /\ \A i \in 1..Len(args.l1) :
             /\ ret.val[i] \in 0..(Len(args.l2) - 1)
             /\ Matches(args.l1[i], args.l2[ret.val[i] + 1], args.atol)

\* C3: whenever some subset point matches more than one superset point
\* within atol, coord_list_mapping raises ValueError rather than returning.
C3_DuplicateMatchRaises ==
  (IsMapping /\ \E i \in 1..Len(args.l1) : Cardinality(MatchCols(i)) > 1)
     => ret.kind = "ValueError"

IsFind == pc = "returned" /\ fn = "find_in_coord_list"

Elems(s) == {s[i] : i \in 1..Len(s)}

\* the 0-based positions at which the list holds the point exactly
ExactPositions == {i \in 0..(Len(args.l1) - 1) : args.l1[i + 1] = args.p}

\* C4 as stated: for any point p and list L holding p exactly at position k,
\* find_in_coord_list(L, p, atol=0) returns an index set that contains k.
C4_ExactFoundAtolZero ==
  (IsFind /\ args.atol = 0) => ExactPositions \subseteq Elems(ret.val)

\* C4 amended: for any point p, any list L holding p exactly at position k
\* and any atol > 0, find_in_coord_list(L, p, atol) returns an index set that
\* contains k; with atol = 0 the strict comparison matches nothing and the
\* result is empty.
C4_ExactFoundPositiveAtol ==
  IsFind => /\ args.atol > 0 => ExactPositions \subseteq Elems(ret.val)
            /\ args.atol = 0 => ret.val = <<>>

C4_Witness ==
  /\ IsFind
  /\ args.atol > 0
  /\ ExactPositions = {1}
  /\ 1 \in Elems(ret.val)

\* the 0-based indices whose every component lies strictly within atol
StrictlyWithin(list, p, atol) ==
  {i \in 0..(Len(list) - 1) : \A k \in Axes : Abs(list[i + 1][k] - p[k]) < atol}

\* C5: find_in_coord_list returns exactly the indices i for which every
\* component of list[i] - point has absolute value strictly less than atol
\* (nothing for an empty list), each once and in ascending order, and
\* in_coord_list is true exactly when that set is not empty.
C5_FindIsStrictComponentwise ==
  /\ IsFind =>
       /\ Elems(ret.val) = StrictlyWithin(args.l1, args.p, args.atol)
       /\ \A a, b \in 1..Len(ret.val) : a < b => ret.val[a] < ret.val[b]
       /\ Len(args.l1) = 0 => ret.val = <<>>
  /\ (pc = "returned" /\ fn = "in_coord_list") =>
       ret.flag = (StrictlyWithin(args.l1, args.p, args.atol) # {})

\* a two point list of which only the second matches, one component being
\* off by less than atol and no component by atol or more
C5_Witness ==
  /\ IsFind
  /\ Len(args.l1) = 2
  /\ ret.val = <<1>>
  /\ args.l1[2] # args.p

\* C6: is_coord_subset is true iff every subset point has a superset point
\* whose every component differs from it by less than atol; it agrees with
\* in_coord_list(superset, p, atol) taken over all p of subset.
C6_SubsetIffEveryPointMatched ==
  (pc = "returned" /\ fn = "is_coord_subset") =>
     /\ ret.flag = (\A i \in 1..Len(args.l1) : \E j \in 1..Len(args.l2) :
                     \A k \in Axes : Abs(args.l1[i][k] - args.l2[j][k]) < args.atol)
     /\ ret.flag = (\A i \in 1..Len(args.l1) :
                     in_coord_list(args.l2, args.l1[i], args.atol))

\* a true answer for two different subset points, one matched inexactly
C6_Witness ==
  /\ pc = "returned" /\ fn = "is_coord_subset"
  /\ ret.flag = TRUE
  /\ Len(args.l1) = 2
  /\ args.l1[1] # args.l1[2]
  /\ \E i \in 1..2 : \A j \in 1..Len(args.l2) : args.l2[j] # args.l1[i]

(***************************************************************************)
(* Properties of 4.2                                                       *)
(***************************************************************************)
IsPbcDiff == pc = "returned" /\ fn = "pbc_diff"

IsFindPbc == pc = "returned" /\ fn = "find_in_coord_list_pbc"

\* every wrapped difference the call computed on a periodic axis: the
\* components of pbc_diff's result, and the entries of frac_dist after line
\* 229 of find_in_coord_list_pbc
WrappedOnPeriodicAxes ==
  IF IsPbcDiff THEN {ret.val[k] : k \in {a \in Axes : args.pbc[a]}}
  ELSE IF IsFindPbc
    THEN {wrapped_frac_dist(args.l1, args.p, args.pbc)[i][k] :
            i \in 1..Len(args.l1), k \in {a \in Axes : args.pbc[a]}}
  ELSE {}

\* C7 as stated: on every periodic axis the wrapped difference
\* diff - round(diff) lies in the half open interval [-0.5, 0.5), exact half
\* integers included.
C7_WrappedInHalfOpenInterval ==
  \A w \in WrappedOnPeriodicAxes : -ONE <= 2 * w /\ 2 * w < ONE

\* C7 amended: on every periodic axis the wrapped difference lies in the
\* closed interval [-0.5, 0.5] and differs from the raw difference by a whole
\* number; +0.5 is returned for a raw difference of 2n + 0.5 (np.round takes
\* exact halves to the even neighbour).
C7_WrappedInClosedInterval ==
  /\ \A w \in WrappedOnPeriodicAxes : -ONE <= 2 * w /\ 2 * w <= ONE
  /\ IsPbcDiff => \A k \in Axes :
       /\ (args.p[k] - args.q[k] - ret.val[k]) % ONE = 0
       /\ (args.pbc[k] /\ (args.p[k] - args.q[k]) % (2 * ONE) = ONE \div 2)
             => 2 * ret.val[k] = ONE

\* a raw difference of exactly 0.5 on a periodic axis, returned as +0.5
C7_Witness ==
  /\ IsPbcDiff
  /\ args.pbc[1]
  /\ 2 * (args.p[1] - args.q[1]) = ONE
  /\ 2 * ret.val[1] = ONE

\* the difference of list[i] and coord on axis k: less its rounded value on a
\* periodic axis, raw on a non-periodic one
AxisDiff(i, k) ==
  LET d == args.l1[i + 1][k] - args.p[k]
  IN  IF args.pbc[k] THEN d - ONE * np_round(d) ELSE d

PbcMatches == {i \in 0..(Len(args.l1) - 1) : \A k \in Axes : Abs(AxisDiff(i, k)) < args.atol}

\* C8: find_in_coord_list_pbc returns exactly the indices i for which, on
\* every axis, list[i] - coord (less its rounded value on the periodic axes,
\* raw on the others) has absolute value strictly below atol, in ascending
\* order; in_coord_list_pbc is true exactly when that set is not empty.
C8_FindPbcWrapsPeriodicAxesOnly ==
  /\ IsFindPbc =>
       /\ Elems(ret.val) = PbcMatches
       /\ \A a, b \in 1..Len(ret.val) : a < b => ret.val[a] < ret.val[b]
  /\ (pc = "returned" /\ fn = "in_coord_list_pbc") => ret.flag = (PbcMatches # {})

\* a match across the cell boundary on a periodic axis, next to a point that
\* is rejected because the axis on which it is a lattice translate is not
\* periodic
C8_Witness ==
  /\ IsFindPbc
  /\ Len(args.l1) = 2
  /\ ret.val = <<1>>
  /\ \E k \in Axes : args.pbc[k] /\ Abs(args.l1[2][k] - args.p[k]) >= ONE - args.atol
  /\ \E k \in Axes : ~args.pbc[k] /\ Abs(args.l1[1][k] - args.p[k]) >= ONE - args.atol

\* C9: pbc_diff(a, b, pbc) is (a - b) - round(a - b) on every periodic axis
\* and a - b on every other axis; with all axes periodic
\* pbc_diff([0.1,0.1,0.1],[0.3,0.5,0.9]) = [-0.2,-0.4,0.2] and
\* pbc_diff([0.9,0.1,1.01],[0.3,0.5,0.9]) = [-0.4,-0.4,0.11].
C9_PbcDiffFormulaAndExamples ==
  IsPbcDiff =>
    /\ \A k \in Axes :
         ret.val[k] = IF args.pbc[k]
                        THEN (args.p[k] - args.q[k]) - ONE * np_round(args.p[k] - args.q[k])
                        ELSE args.p[k] - args.q[k]
    /\ (args.p = <<10, 10, 10>> /\ args.q = <<30, 50, 90>> /\ args.pbc = <<TRUE, TRUE, TRUE>>)
          => ret.val = <<-20, -40, 20>>
    /\ (args.p = <<90, 10, 101>> /\ args.q = <<30, 50, 90>> /\ args.pbc = <<TRUE, TRUE, TRUE>>)
          => ret.val = <<-40, -40, 11>>

C9_Witness ==
  /\ IsPbcDiff
  /\ args.p = <<90, 10, 101>> /\ args.q = <<30, 50, 90>>
  /\ args.pbc = <<TRUE, TRUE, TRUE>>
  /\ ret.val = <<-40, -40, 11>>

(***************************************************************************)
(* Properties of 4.3                                                       *)
(***************************************************************************)
IsShortest == pc = "returned" /\ fn = "pbc_shortest_vectors"

\* lattice translations up to two cells away on every axis, beyond the window
FarImages == {<<a, b, c>> : a \in -2..2, b \in -2..2, c \in -2..2}

RawDiff(i, j) ==
  <<args.l2[j][1] - args.l1[i][1], args.l2[j][2] - args.l1[i][2], args.l2[j][3] - args.l1[i][3]>>

\* the Cartesian displacement from point i to the image of point j that is
\* translated by the lattice vector t
ImageDisplacement(i, j, t) == cart_of(args.lattice, translate(RawDiff(i, j), t))

IsImageDisplacement(i, j) ==
  \E t \in FarImages : ret.vecs[i][j] = ImageDisplacement(i, j, t)

Orthogonal(lattice) ==
  \A a, b \in Axes : a # b =>
     lattice[a][1] * lattice[b][1] + lattice[a][2] * lattice[b][2]
        + lattice[a][3] * lattice[b][3] = 0

IsLattice == pc = "returned" /\ fn = "lattice_points_in_supercell"

RVecElems(s) == {s[i] : i \in 1..Len(s)}

\* C11: for every integer matrix with a nonzero determinant the enumeration
\* returns, and it returns |det| points; whatever the matrix, a list whose
\* length is not |det| is never returned (the call raises ValueError or, for
\* a singular matrix, the inversion fails)
C11_CountEqualsDeterminant ==
  IsLattice =>
    /\ det3(args.m) # 0 =>
         ret.kind = "ok" /\ Len(ret.rvecs) = Abs(det3(args.m))
    /\ ret.kind = "ok" => Len(ret.rvecs) = Abs(det3(args.m))
    /\ ret.kind # "ok" => ret.kind \in {"ValueError", "LinAlgError"} /\ ret.rvecs = <<>>

\* a sheared supercell with a negative entry and determinant 4 returns 4 points
C11_Witness ==
  /\ IsLattice
  /\ args.m = << <<2, 0, 0>>, <<1, 1, 0>>, <<1, -1, 2>> >>
  /\ ret.kind = "ok"
  /\ Len(ret.rvecs) = 4

\* the supercell matrix of the worked example
Doubled == << <<2, 0, 0>>, <<0, 1, 0>>, <<0, 0, 1>> >>

\* C12: every returned point lies in the half open unit cube, is a point of
\* the primitive lattice (f . M is an integer vector), no point is returned
\* twice, and doubling the first axis returns exactly [0,0,0] and [0.5,0,0]
C12_PointsInCellOnLattice ==
  IsLattice /\ ret.kind = "ok" =>
    /\ \A i \in 1..Len(ret.rvecs) :
         LET f == ret.rvecs[i]
             fM == dot_vm(f.num, args.m)
         IN  /\ f.den > 0
             /\ \A k \in Axes : 0 <= f.num[k] /\ f.num[k] < f.den
             /\ \A k \in Axes : fM[k] % f.den = 0
    /\ \A i, j \in 1..Len(ret.rvecs) :
         i # j =>
           \E k \in Axes : ret.rvecs[i].num[k] * ret.rvecs[j].den
                             # ret.rvecs[j].num[k] * ret.rvecs[i].den
    /\ args.m = Doubled =>
         /\ Len(ret.rvecs) = 2
         /\ RVecElems(ret.rvecs) = {RVec(<<0, 0, 0>>, 2), RVec(<<1, 0, 0>>, 2)}

\* a sheared cell returned a point with a nonzero coordinate on every axis
C12_Witness ==
  /\ IsLattice
  /\ ret.kind = "ok"
  /\ args.m # Doubled
  /\ \E i \in 1..Len(ret.rvecs) : \A k \in Axes : ret.rvecs[i].num[k] > 0

(***************************************************************************)
(* Properties of 4.5                                                       *)
(***************************************************************************)
IsMethod(name) == pc = "returned" /\ fn = name

\* the Simplex the returned method was called on
Self == CHOOSE s \in Simplices \cup EqSimplices : s.coords = args.coords

\* whether two vectors of fractions are the same vector
RVecEq(a, b) ==
  /\ Len(a.num) = Len(b.num)
  /\ \A k \in 1..Len(a.num) : a.num[k] * b.den = b.num[k] * a.den

\* C13: on a full-dimensional simplex bary_coords(p) returns coordinates
\* whose sum is 1, and point_from_bary_coords maps them back to p
C13_BaryRoundTrip ==
  IsMethod("Simplex.bary_coords") /\ Self.has_aug =>
    /\ ret.kind = "ok"
    /\ Len(ret.rvec.num) = Self.space_dim
    /\ SumSeq(ret.rvec.num) = ret.rvec.den
    /\ point_from_bary_coords(Self, ret.rvec).kind = "ok"
    /\ RVecEq(point_from_bary_coords(Self, ret.rvec).rvec, RVec(args.p, 1))

\* a point outside a skewed simplex: a negative and a fractional coordinate
C13_Witness ==
  /\ IsMethod("Simplex.bary_coords")
  /\ Self.has_aug
  /\ ret.kind = "ok"
  /\ Self.aug_det \notin {-1, 1}
  /\ \E k \in 1..Len(ret.rvec.num) : ret.rvec.num[k] < 0
  /\ \E k \in 1..Len(ret.rvec.num) : ret.rvec.num[k] % ret.rvec.den # 0

\* the barycentric coordinates of the point argument
ArgBary == bary_of(Self, RVec(args.p, 1))

\* C14: in_simplex is true exactly when every barycentric coordinate of the
\* point is >= -tolerance (compared by cross multiplication for the coarse
\* tolerances; for 1e-8, finer than any coordinate that occurs, that is no
\* negative coordinate at all), so a vertex is in the simplex for every
\* tolerance and a point with a coordinate below -tolerance is not
C14_InSimplexIffBaryAboveMinusTol ==
  IsMethod("Simplex.in_simplex") /\ Self.has_aug =>
    LET b == ArgBary
        tol == args.tolerance
    IN  /\ ret.kind = "ok"
        /\ tol.den <= 5 =>
             (ret.flag <=> \A k \in 1..Len(b.num) :
                             b.num[k] * tol.den >= -(tol.num * b.den))
        /\ tol.num = 1 /\ tol.den > b.den =>
             (ret.flag <=> \A k \in 1..Len(b.num) : b.num[k] >= 0)
        /\ args.p \in Elems(Self.coords) => ret.flag

\* a point outside the simplex that only the coarse tolerance lets in
C14_WitnessSlack ==
  /\ IsMethod("Simplex.in_simplex")
  /\ Self.has_aug
  /\ args.tolerance = [num |-> 2, den |-> 5]
  /\ \E k \in 1..Len(ArgBary.num) : ArgBary.num[k] < 0
  /\ ret.flag

\* a vertex tested without any tolerance
C14_Witness ==
  /\ IsMethod("Simplex.in_simplex")
  /\ Self.has_aug
  /\ args.tolerance.num = 0
  /\ args.p = Self.coords[1]
  /\ ret.flag

\* the candidate crossings of the line through the two point arguments: the
\* points of the line where one barycentric coordinate vanishes
Candidates == possible_barys(bary_of(Self, RVec(args.p, 1)), bary_of(Self, RVec(args.q, 1)))

\* the pairs of candidates c[i], c[j] that both lie in the simplex (within
\* the tolerance) and are not within the tolerance of each other
FarPairs(c, tolerance) ==
  LET inside == {i \in 1..Len(c) : all_ge_neg(c[i], tolerance)}
  IN  {pr \in inside \X inside : ~allclose_rtol0(c[pr[1]], c[pr[2]], tolerance)}

\* three candidates in the simplex, no two of them within the tolerance
ThreeDistinct(far) ==
  \E pr \in far, qr \in far : pr[1] = qr[1] /\ <<pr[2], qr[2]>> \in far

\* being within the tolerance is transitive on the candidates in the simplex
Transitive(c, tolerance) ==
  LET inside == {i \in 1..Len(c) : all_ge_neg(c[i], tolerance)}
      far == FarPairs(c, tolerance)
  IN  \A i, j, k \in inside :
        <<i, j>> \notin far /\ <<j, k>> \notin far => <<i, k>> \notin far

\* whether the point r lies on the line through the two point arguments: the
\* vectors r - p and q - p are parallel
OnLine(r) ==
  \A i, j \in 1..Len(args.p) :
    (r.num[i] - args.p[i] * r.den) * (args.q[j] - args.p[j])
      = (r.num[j] - args.p[j] * r.den) * (args.q[i] - args.p[i])

\* C15 (returned points): at most two points are returned, and each of them
\* is in the simplex within the tolerance, lies on the line through p1 and
\* p2, and has a barycentric coordinate that is zero
C15_AtMostTwoCrossingsOnBoundary ==
  IsMethod("Simplex.line_intersection") /\ Self.has_aug =>
    /\ ret.kind \in {"ok", "ValueError"}
    /\ ret.kind = "ok" =>
         /\ Len(ret.rvecs) <= 2
         /\ \A n \in 1..Len(ret.rvecs) :
              LET r == ret.rvecs[n]
              IN  /\ in_simplex(Self, r, args.tolerance).flag
                  /\ OnLine(r)
                  /\ \E k \in 1..Self.space_dim : bary_of(Self, r).num[k] = 0

\* C15 (error, as stated): three candidates inside the simplex, no two of
\* them within the tolerance of each other, make the call raise ValueError
C15_ThreeDistinctCrossingsRaise ==
  IsMethod("Simplex.line_intersection") /\ Self.has_aug =>
    (ThreeDistinct(FarPairs(Candidates, args.tolerance)) => ret.kind = "ValueError")

\* C15 as stated: both parts
C15_LineIntersection ==
  C15_AtMostTwoCrossingsOnBoundary /\ C15_ThreeDistinctCrossingsRaise

\* C15 (amended): the returned points are as stated; the call raises only
\* when three mutually distinct candidates lie in the simplex, and it does
\* raise for them whenever being within the tolerance is transitive on the
\* candidates (as it is for tolerance 0).  A coarse tolerance can let one
\* kept candidate absorb two others that are far from each other.
C15_RaisesOnThreeKeptCrossings ==
  /\ C15_AtMostTwoCrossingsOnBoundary
  /\ IsMethod("Simplex.line_intersection") /\ Self.has_aug =>
       LET c == Candidates
           far == FarPairs(c, args.tolerance)
       IN  /\ ret.kind = "ValueError" => ThreeDistinct(far)
           /\ ThreeDistinct(far) /\ Transitive(c, args.tolerance)
                => ret.kind = "ValueError"
           /\ args.tolerance.num = 0 => Transitive(c, args.tolerance)

\* a line through the interior of a skewed tetrahedron returns two points
C15_Witness ==
  /\ IsMethod("Simplex.line_intersection")
  /\ Self.has_aug
  /\ Self.simplex_dim = 3
  /\ Self.aug_det \notin {-1, 1}
  /\ ret.kind = "ok"
  /\ Len(ret.rvecs) = 2
  /\ ret.rvecs[1].den > 1

\* a call that raised because of three crossings
C15_WitnessRaise ==
  /\ IsMethod("Simplex.line_intersection")
  /\ Self.has_aug
  /\ ret.kind = "ValueError"

\* three mutually distinct candidates in the simplex, two points returned
C15_WitnessAbsorbed ==
  /\ IsMethod("Simplex.line_intersection")
  /\ Self.has_aug
  /\ args.p = <<-1, 0, 1>>
  /\ args.q = <<2, 1, -1>>
  /\ ThreeDistinct(FarPairs(Candidates, args.tolerance))
  /\ ret.kind = "ok"
  /\ Len(ret.rvecs) = 2

\* the methods that need the inverse of the augmented matrix
BaryMethods ==
  { "Simplex.bary_coords", "Simplex.point_from_bary_coords",
    "Simplex.in_simplex", "Simplex.line_intersection" }

\* the vertex array of self does not have one more row than columns
NotFull == Len(args.coords) # Len(args.coords[1]) + 1

\* C16: on a simplex that is not full-dimensional each barycentric method
\* raises ValueError "Simplex is not full-dimensional" and returns nothing
C16_BaryMethodsRaiseNotFullDimensional ==
  pc = "returned" /\ fn \in BaryMethods /\ NotFull =>
    /\ ret.kind = "ValueError"
    /\ ret.msg = "Simplex is not full-dimensional"
    /\ ret = Raise("ValueError", "Simplex is not full-dimensional")

\* line_intersection called on a triangle in space
C16_Witness ==
  /\ IsMethod("Simplex.line_intersection")
  /\ Len(args.coords) = 3
  /\ Len(args.coords[1]) = 3
  /\ args.p # args.q
  /\ ret.kind = "ValueError"

\* C17: the volume of a simplex that is not full-dimensional fails with the
\* ValueError "Simplex is not full-dimensional" of the barycentric methods
C17_VolumeRaisesNotFullDimensional ==
  IsMethod("Simplex.volume") /\ NotFull =>
    /\ ret.kind = "ValueError"
    /\ ret.msg = "Simplex is not full-dimensional"

\* the rows of a, in the order f, are within np.allclose of the rows of b
\* (a single row is compared with every row of the other array)
RowsClose(a, f, b) ==
  LET n == IF Len(a) = 1 THEN Len(b) ELSE Len(a)
      rowa(i) == IF Len(a) = 1 THEN a[1] ELSE a[f[i]]
      rowb(i) == IF Len(b) = 1 THEN b[1] ELSE b[i]
  IN  \A i \in 1..n : \A k \in Axes :
        Abs(rowa(i)[k] - rowb(i)[k]) <= ALLCLOSE_ATOL + Abs(rowb(i)[k]) \div RTOL_INV

\* b is a permutation of a, entry for entry
ExactPermutation(a, b) ==
  /\ Len(a) = Len(b)
  /\ \E f \in Permutations(1..Len(a)) : \A i \in 1..Len(a) : a[f[i]] = b[i]

Leibniz(m) ==
  LET n == Len(m)
      inversions(f) == Cardinality({pr \in (1..n) \X (1..n) : pr[1] < pr[2] /\ f[pr[1]] > f[pr[2]]})
      term(f) == (IF inversions(f) % 2 = 0 THEN 1 ELSE -1)
  IN  LET RECURSIVE prod(_, _)
          prod(f, i) == IF i > n THEN 1 ELSE m[i][f[i]] * prod(f, i + 1)
          RECURSIVE total(_)
          total(F) == IF F = {} THEN 0
                      ELSE LET f == CHOOSE g \in F : TRUE
                           IN  term(f) * prod(f, 1) + total(F \ {f})
      IN  total(Permutations(1..n))

\* C19: the volume of a full-dimensional simplex is |det(aug)| / d!, it is
\* 1/6 for the unit right tetrahedron, and every order of the vertices has
\* the same volume
C19_VolumeIsDetOverFactorial ==
  IsMethod("Simplex.volume") /\ ~NotFull =>
    LET d == Len(args.coords[1])
        aug == [i \in 1..Len(args.coords) |-> args.coords[i] \o <<1>>]
    IN  /\ ret.kind = "ok"
        /\ ret.rat.den > 0
        /\ ret.rat.num * factorial(d) = Abs(Leibniz(aug)) * ret.rat.den
        /\ args.coords = << <<0, 0, 0>>, <<1, 0, 0>>, <<0, 1, 0>>, <<0, 0, 1>> >>
             => ret.rat.num * 6 = ret.rat.den
        /\ \A c \in permutations(args.coords) :
             LET v == volume(Simplex(c))
             IN  v.kind = "ok" /\ v.rat.num * ret.rat.den = ret.rat.num * v.rat.den

\* the volume 8/6 of the skewed tetrahedron
C19_Witness ==
  /\ IsMethod("Simplex.volume")
  /\ Len(args.coords) = 4
  /\ ret.kind = "ok"
  /\ ret.rat.num * 6 = 8 * ret.rat.den

(***************************************************************************)
(* Properties of 4.6                                                       *)
(***************************************************************************)
IsInterp == pc = "returned" /\ fn = "get_linear_interpolated_value"

\* the call got as many ys as xs, and at least one
WellFormedLists == Len(args.xs) = Len(args.ys) /\ Len(args.xs) > 0

\* C20: for every x below the smallest or above the largest of the xs the
\* call raises the range error and returns no value
C20_OutsideRangeRaises ==
  IsInterp /\ WellFormedLists =>
    ( (\A i \in 1..Len(args.xs) : args.x < args.xs[i])
        \/ (\A i \in 1..Len(args.xs) : args.x > args.xs[i])
      => /\ ret.kind = "ValueError"
         /\ ret.msg = "x is out of range of provided x_values"
         /\ ret.rat = NoRet.rat )

\* x above two unsorted xs
C20_Witness ==
  /\ IsInterp
  /\ args.xs = <<2, 0>>
  /\ args.x > 2
  /\ Len(args.ys) = 2
  /\ ret.kind = "ValueError"

\* x below the xs
C20_WitnessBelow ==
  /\ IsInterp
  /\ args.xs = <<1, 4>>
  /\ args.x < 1
  /\ Len(args.ys) = 2
  /\ ret.kind = "ValueError"

\* the abscissas of the data points
XValues == {args.xs[i] : i \in 1..Len(args.xs)}

\* the data points i and j are neighbours along x with i on the left:
\* x_i < x_j and no abscissa lies strictly between them
Adjacent(i, j) ==
  /\ args.xs[i] < args.xs[j]
  /\ \A k \in 1..Len(args.xs) :
       ~(args.xs[i] < args.xs[k] /\ args.xs[k] < args.xs[j])

\* the returned fraction is y1 + (y2 - y1)(x - x1)/(x2 - x1) for the data
\* points i (left) and j (right)
OnSegment(i, j) ==
  LET x1 == args.xs[i]
      x2 == args.xs[j]
      y1 == args.ys[i]
      y2 == args.ys[j]
  IN  ret.rat.num * (x2 - x1)
        = ret.rat.den * (y1 * (x2 - x1) + (y2 - y1) * (args.x - x1))

\* x lies between the smallest and the largest abscissa, ends included
InClosedRange ==
  /\ \E i \in 1..Len(args.xs) : args.xs[i] <= args.x
  /\ \E i \in 1..Len(args.xs) : args.x <= args.xs[i]

\* C21: for every x with min(xs) <= x <= max(xs), both ends included, the
\* call returns the value of the line through the two neighbouring data
\* points that bracket x, in whatever order the pairs were supplied; for
\* {(0,0),(2,4)} and x = 1 it returns 2
C21_InterpolatesOnClosedRange ==
  IsInterp /\ WellFormedLists /\ InClosedRange =>
    /\ ret.kind = "ok"
    /\ \E i, j \in 1..Len(args.xs) :
         /\ Adjacent(i, j)
         /\ args.xs[i] <= args.x /\ args.x <= args.xs[j]
         /\ OnSegment(i, j)
    /\ ( args.xs = <<0, 2>> /\ args.ys = <<0, 4>> /\ args.x = 1
           => ret.rat.num = 2 * ret.rat.den )

\* the same with the largest abscissa left out of the range:
\* min(xs) <= x < max(xs)
C21_InterpolatesOnHalfOpenRange ==
  IsInterp /\ WellFormedLists /\ InClosedRange
    /\ (\E i \in 1..Len(args.xs) : args.x < args.xs[i]) =>
    /\ ret.kind = "ok"
    /\ \E i, j \in 1..Len(args.xs) :
         /\ Adjacent(i, j)
         /\ args.xs[i] <= args.x /\ args.x < args.xs[j]
         /\ OnSegment(i, j)
    /\ ( args.xs = <<0, 2>> /\ args.ys = <<0, 4>> /\ args.x = 1
           => ret.rat.num = 2 * ret.rat.den )

\* C30: whenever the call returns a value, the two abscissas the
\* interpolation step divides by are neighbours x1 < x2 of the data with
\* x1 <= x < x2, so the divisor x2 - x1 is positive, repeated abscissas
\* included
C30_BracketIsProperInterval ==
  IsInterp /\ ret.kind = "ok" =>
    /\ ret.rat.den > 0
    /\ \E i, j \in 1..Len(args.xs) :
         /\ Adjacent(i, j)
         /\ args.xs[i] <= args.x /\ args.x < args.xs[j]
         /\ ret.rat.den = args.xs[j] - args.xs[i]

\* a value is returned at an abscissa that the data repeats
C30_Witness ==
  /\ IsInterp
  /\ ret.kind = "ok"
  /\ \E i, j \in 1..Len(args.xs) :
       i # j /\ args.xs[i] = args.x /\ args.xs[j] = args.x

(***************************************************************************)
(* Further properties of 4.2                                               *)
(***************************************************************************)
NoPbc == [k \in Axes |-> FALSE]

\* C27: with all three PBC flags false find_in_coord_list_pbc returns the
\* indices that find_in_coord_list returns for the same list, coordinate and
\* atol, the empty list included
C27_PbcOffEqualsPlainFind ==
  IsFindPbc /\ args.pbc = NoPbc =>
    ret.val = find_in_coord_list(args.l1, args.p, args.atol)

\* no axis is periodic, the point itself is found and a lattice translate of
\* it in the list is not
C27_Witness ==
  /\ IsFindPbc
  /\ args.pbc = NoPbc
  /\ Len(args.l1) = 2
  /\ ret.val = <<0>>
  /\ \A k \in Axes : (args.l1[2][k] - args.p[k]) % ONE \in {0, 1, ONE - 1}

\* no axis is periodic and the list is empty
C27_WitnessEmpty ==
  /\ IsFindPbc
  /\ args.pbc = NoPbc
  /\ args.l1 = <<>>
  /\ ret.val = <<>>

\* whole numbers added to one coordinate
Shifts == {-1, 2}

\* the point p moved by n cells along axis k
shifted(p, k, n) == [p EXCEPT ![k] = @ + n * ONE]

\* the indices found after the query point moved by n cells along axis k
FindShiftedQuery(k, n) ==
  Elems(find_in_coord_list_pbc(args.l1, shifted(args.p, k, n), args.atol, args.pbc))

\* the indices found after the list point i (0-based) moved by n cells along
\* axis k
FindShiftedRow(i, k, n) ==
  Elems(find_in_coord_list_pbc([args.l1 EXCEPT ![i + 1] = shifted(@, k, n)],
                               args.p, args.atol, args.pbc))

Rows == 0..(Len(args.l1) - 1)

\* a shift along a periodic axis changes nothing
PeriodicShiftKeepsMatches ==
  \A k \in Axes, n \in Shifts :
    args.pbc[k] =>
      /\ FindShiftedQuery(k, n) = Elems(ret.val)
      /\ \A i \in Rows : FindShiftedRow(i, k, n) = Elems(ret.val)

\* C28 as stated: a whole number added to a coordinate of the query point or
\* of a list point on a periodic axis does not change the returned indices;
\* on an axis that is not periodic a nonzero whole shift larger than atol
\* removes the match
C28_ShiftLargerThanAtolRemovesMatch ==
  IsFindPbc =>
    /\ PeriodicShiftKeepsMatches
    /\ \A k \in Axes, n \in Shifts :
         ~args.pbc[k] /\ Abs(n) * ONE > args.atol =>
           \A i \in Elems(ret.val) :
             /\ i \notin FindShiftedQuery(k, n)
             /\ i \notin FindShiftedRow(i, k, n)

\* C28 amended: on an axis that is not periodic the match is removed by a
\* whole shift of at least twice atol (every nonzero whole shift when
\* atol <= 0.5)
C28_ShiftOfTwiceAtolRemovesMatch ==
  IsFindPbc =>
    /\ PeriodicShiftKeepsMatches
    /\ \A k \in Axes, n \in Shifts :
         ~args.pbc[k] /\ Abs(n) * ONE >= 2 * args.atol =>
           \A i \in Elems(ret.val) :
             /\ i \notin FindShiftedQuery(k, n)
             /\ i \notin FindShiftedRow(i, k, n)

\* a match across the cell boundary with one periodic axis and one that is
\* not
C28_Witness ==
  /\ IsFindPbc
  /\ ret.val # <<>>
  /\ 2 * args.atol <= ONE
  /\ \E k \in Axes : args.pbc[k] /\ args.l1[ret.val[1] + 1][k] # args.p[k]
  /\ \E k \in Axes : ~args.pbc[k]

\* a match with atol above 0.5 that a shift by one cell along an axis that
\* is not periodic leaves in place
C28_WitnessKept ==
  /\ IsFindPbc
  /\ ret.val # <<>>
  /\ 2 * args.atol > ONE
  /\ \E k \in Axes : ~args.pbc[k] /\ ret.val[1] \in FindShiftedQuery(k, -1)

(***************************************************************************)
(* Further properties of 4.5                                               *)
(***************************************************************************)
\* the Simplex on the right hand side of ==
Other == CHOOSE s \in EqSimplices : s.coords = args.other

\* C29: whenever two Simplex objects compare equal (the comparison returns
\* True and does not raise) they have the same hash, that is the same number
\* of vertices
C29_EqualImpliesSameHash ==
  IsMethod("Simplex.__eq__") /\ ret.kind = "ok" /\ ret.flag =>
    Simplex_hash(Self) = Simplex_hash(Other)

\* the same for two Simplex objects with the same number of vertices, or
\* with neither of them holding a single vertex
C29_EqualImpliesSameHashUnlessOneVertex ==
  IsMethod("Simplex.__eq__") /\ ret.kind = "ok" /\ ret.flag
    /\ (Len(args.coords) = 1 <=> Len(args.other) = 1) =>
    Simplex_hash(Self) = Simplex_hash(Other)

\* what the Simplex is made of: its fields and the contents of the arrays
\* they name (the vertices, the augmented matrix and its inverse)
SimplexFields ==
  << simplex, heap[simplex._coords],
     IF simplex._aug # 0 THEN <<heap[simplex._aug], heap[simplex._aug_inv]>> ELSE <<>> >>

\* C22: a Simplex is immutable after construction: no call of volume,
\* bary_coords, point_from_bary_coords, in_simplex, line_intersection, ==,
\* hash or coords (raising or not) and no write of the caller into the array
\* that coords returned changes the vertices, the augmented matrix or its
\* inverse
C22_SimplexImmutable == [][SimplexFields' = SimplexFields]_vars

\* the caller has written into the array that coords returned, and the
\* vertices of the Simplex are not what that array holds now
C22_Witness ==
  /\ pc = "returned"
  /\ fn = "Simplex.coords"
  /\ heap[ret.ref][1][1] = 7
  /\ heap[simplex._coords][1][1] # 7

\* a method of a Simplex that is not full-dimensional has raised
C22_WitnessRaised ==
  /\ pc = "returned"
  /\ simplex._aug = 0
  /\ fn = "Simplex.bary_coords"
  /\ ret.kind = "ValueError"

(***************************************************************************)
(* Properties of RemoveDuplicatesFilter                                    *)
(***************************************************************************)
\* call j accepted a structure that makes the structure of call k a
\* duplicate
AcceptedDuplicateOf(j, k) ==
  /\ log[j].flag
  /\ get_hash(log[j].structure) = get_hash(log[k].structure)
  /\ fit(log[j].structure, log[k].structure)
  /\ dup_filter.symprec # "None" =>
       get_spg_num(log[j].structure) = get_spg_num(log[k].structure)

\* the structures of hash h that the calls so far accepted, in call order
RECURSIVE AcceptedOfHash(_, _)
AcceptedOfHash(h, n) ==
  IF n = 0 THEN <<>>
  ELSE LET before == AcceptedOfHash(h, n - 1)
       IN  IF log[n].flag /\ get_hash(log[n].structure) = h
             THEN Append(before, log[n].structure)
             ELSE before

\* C23: in any sequence of test() calls on one filter, a call returns False
\* exactly when an earlier call accepted a structure with the same
\* composition hash that fits the new one and, if symprec is set, has the
\* same space group number; a rejected structure is never stored, so the
\* list stored for a hash is the accepted structures of that hash in call
\* order
C23_RejectsExactlyDuplicatesOfAccepted ==
  /\ \A k \in 1..Len(log) :
       ~log[k].flag <=> \E j \in 1..(k - 1) : AcceptedDuplicateOf(j, k)
  /\ \A h \in DOMAIN dup_filter.structure_list :
       dup_filter.structure_list[h] = AcceptedOfHash(h, Len(log))
  /\ (pc = "returned" /\ fn = "RemoveDuplicatesFilter.test")
       => ret.flag = log[Len(log)].flag

\* with symprec set a structure that fits a stored one of another space
\* group was accepted, and after it a duplicate of a stored one was rejected
C23_Witness ==
  /\ dup_filter.symprec # "None"
  /\ Len(log) >= 3
  /\ log[1].flag /\ log[2].flag /\ ~log[3].flag
  /\ fit(log[1].structure, log[2].structure)
  /\ log[1].structure # log[2].structure
  /\ Len(dup_filter.structure_list["A"]) = 2

(***************************************************************************)
(* Properties of SpeciesMaxDistFilter                                      *)
(***************************************************************************)
IsMaxDistTest == pc = "returned" /\ fn = "SpeciesMaxDistFilter.test"

\* the structure holds a site of each of the two species
ContainsBoth ==
  /\ \E i \in 1..Len(args.sites) : args.sites[i].specie = "Li"
  /\ \E i \in 1..Len(args.sites) : args.sites[i].specie = "Fe"

\* every site of the first species is farther than max_dist from every site
\* of the second
AllFarther ==
  \A i, j \in 1..Len(args.sites) :
    args.sites[i].specie = "Li" /\ args.sites[j].specie = "Fe" =>
      get_all_distances(args.sites[i], args.sites[j]) > args.max_dist

\* C24: test returns True when the structure contains the two species and
\* their distance is greater than max_dist
C24_TrueWhenFartherThanMaxDist ==
  IsMaxDistTest /\ ContainsBoth /\ AllFarther => ret.flag

\* what the code returns there: False, and True exactly when every site of
\* the first species has a site of the second closer than max_dist
C24_TrueIffEverySiteHasCloseNeighbour ==
  IsMaxDistTest =>
    /\ ContainsBoth /\ AllFarther => ~ret.flag
    /\ ret.flag <=>
         \A i \in 1..Len(args.sites) : args.sites[i].specie = "Li" =>
           \E j \in 1..Len(args.sites) :
             /\ args.sites[j].specie = "Fe"
             /\ get_all_distances(args.sites[i], args.sites[j]) < args.max_dist

(***************************************************************************)
(* Properties of Critic2Analysis.structure_graph                           *)
(***************************************************************************)
IsGraph == pc = "returned" /\ fn = "Critic2Analysis.structure_graph"

\* critical points are included and "nnattr" is not among them
WithoutNnattr ==
  args.include_critical_points # {} /\ "nnattr" \notin args.include_critical_points

\* C25: when critical points are included and "nnattr" is not among them, a
\* bond edge is added to the graph only if both of its end points from_idx
\* and to_idx are nucleus critical points; a bond with an end point that is
\* not a nucleus, at either end, is skipped
C25_BondsOnlyBetweenNuclei ==
  IsGraph /\ WithoutNnattr =>
    \A k \in 1..Len(ret.vecs) :
      type_of(ret.vecs[k][2]) = "nucleus" /\ type_of(ret.vecs[k][3]) = "nucleus"

\* what the code guarantees: the near end from_idx of every added bond is a
\* nucleus
C25_BondsStartAtNucleus ==
  IsGraph /\ WithoutNnattr =>
    \A k \in 1..Len(ret.vecs) : type_of(ret.vecs[k][2]) = "nucleus"

(***************************************************************************)
(* Properties of MultiStructuresVis                                        *)
(***************************************************************************)
\* set_structures was called with a list that is not empty
HasStructures == vis.has_structures /\ Len(vis.structures) > 0

\* 0 <= istruct <= len(structures) - 1 and current_structure is
\* structures[istruct]
IndexInRange ==
  HasStructures =>
    /\ 0 <= vis.istruct /\ vis.istruct <= Len(vis.structures) - 1
    /\ vis.current_structure = vis.structures[vis.istruct + 1]

\* the step is a press of the key sym
Pressed(sym) ==
  /\ pc = "idle"
  /\ pc' = "returned"
  /\ fn' = "MultiStructuresInteractorStyle.keyPressEvent"
  /\ args'.sym = sym

\* "n" on the last structure and "p" on the first leave istruct and the
\* current structure alone and show the warning
EndKeysWarn ==
  /\ Pressed("n") /\ HasStructures /\ vis.istruct = Len(vis.structures) - 1 =>
       /\ vis'.istruct = vis.istruct
       /\ vis'.current_structure = vis.current_structure
       /\ vis'.warning_visible /\ vis'.warning_txt = "WARNING : LAST STRUCTURE"
  /\ Pressed("p") /\ HasStructures /\ vis.istruct = 0 =>
       /\ vis'.istruct = vis.istruct
       /\ vis'.current_structure = vis.current_structure
       /\ vis'.warning_visible /\ vis'.warning_txt = "WARNING : FIRST STRUCTURE"

\* C26: after set_structures with a list that is not empty and any sequence
\* of "n" and "p" key presses, 0 <= istruct <= len(structures) - 1 and
\* current_structure is structures[istruct]; "n" on the last structure and
\* "p" on the first leave istruct unchanged and show a warning
C26_IndexStaysInRange == []IndexInRange /\ [][EndKeysWarn]_vars

\* "n" was pressed on the last of three structures after moving there
C26_Witness ==
  /\ pc = "returned"
  /\ fn = "MultiStructuresInteractorStyle.keyPressEvent"
  /\ args.sym = "n"
  /\ Len(vis.structures) = 3
  /\ vis.istruct = 2
  /\ vis.warning_visible
  /\ vis.warning_txt = "WARNING : LAST STRUCTURE"

\* "p" moved back from the second structure to the first
C26_WitnessBack ==
  /\ pc = "returned"
  /\ args.sym = "p"
  /\ Len(vis.structures) >= 2
  /\ vis.istruct = 0
  /\ ~vis.warning_visible
  /\ vis.warning_txt = "WARNING : LAST STRUCTURE"

=============================================================================
